---- MODULE Spec2Model ----
(***************************************************************************)
(* RAG evaluation dashboard: the evaluation ledger                         *)
(* (evaluation_history_manager.py) and the manual judge review flow,       *)
(* judge response parsing, schema normalisation and judge table            *)
(* serialisation (streamlit_dashboard_v2_with_manual_gpt.py).              *)
(***************************************************************************)
EXTENDS Integers, Sequences, FiniteSets, TLC

VARIABLES
    history_file,   \* the JSON store on disk: [exists, valid, evaluations]
    history_data,   \* per manager: self.history_data["evaluations"]
    opened,         \* the managers that have been constructed
    now,            \* datetime.now(), as the number of records built so far
    ret,            \* what the last operation returned
    parsed,         \* normalize_gpt_schema: the mapping handed in
    data,           \* normalize_gpt_schema: the mapping returned by the last pass
    passes,         \* normalize_gpt_schema: passes made over the mapping
    gpt_data,       \* prepare_version_view: the stored judge record, or None
    judge_rows,     \* prepare_version_view: the judge table rows of the question and version
    view,           \* prepare_version_view: the view returned
    field_value,    \* a list-valued field of a dimension block
    field_cell,     \* the judge table cell that holds it
    field_items,    \* what parse_json_list_field reads from the cell
    stage,          \* how far the field has travelled
    response_text,  \* parse_gpt_response: the text handed in
    parse_result,   \* parse_gpt_response: what the call did
    gpt_responses,  \* st.session_state.gpt_responses_original / _optimized
    judge_table,    \* the rows of the judge table file
    pending,        \* the response shown with its warnings and the force-save button
    clicked,        \* the button of the last script run
    session_state,  \* st.session_state: current_excel_filename, comparison_results, gpt_responses_loaded
    judge_record,   \* validate_scoring_consistency: the parsed response handed in
    validation,     \* validate_scoring_consistency: the (warnings, errors) returned
    evaluator,      \* the RAGEvaluatorV2 instance: enable_semantic, enable_gpt, weights
    layer_result,   \* evaluate_answer: the layer scores, final_score and weights_used
    dimension_settings, \* st.session_state.gpt_selected_dimensions / gpt_dimension_weights
    overall_result, \* compute_gpt_overall: the record, dimensions and weights used, the value
    coverage_call,  \* calculate_keyword_coverage: the answer and the keywords handed in
    coverage_result, \* calculate_keyword_coverage: (score, matched, details)
    faith_call,     \* evaluate_faithfulness: the answer and the reference keywords handed in
    faith_result,   \* evaluate_faithfulness: (score, description, analysis)
    semantic_call,  \* calculate_semantic_similarity: enable_semantic, the reference and the answer
    semantic_result \* calculate_semantic_similarity: (score, details), and the texts encoded

ledgerVars == <<history_file, history_data, opened, now, ret>>
normVars == <<parsed, data, passes>>
viewVars == <<gpt_data, judge_rows, view>>
fieldVars == <<field_value, field_cell, field_items, stage>>
parseVars == <<response_text, parse_result>>
reviewVars == <<gpt_responses, judge_table, pending, clicked, session_state>>
validateVars == <<judge_record, validation>>
layerVars == <<evaluator, layer_result>>
overallVars == <<dimension_settings, overall_result>>
coverageVars == <<coverage_call, coverage_result>>
faithVars == <<faith_call, faith_result>>
semanticVars == <<semantic_call, semantic_result>>
scoringVars == <<validateVars, layerVars, overallVars, coverageVars, faithVars, semanticVars>>
dashboardVars == <<ledgerVars, normVars, viewVars, fieldVars, parseVars, reviewVars>>
pureVars == <<parsed, data, passes, gpt_data, judge_rows, view,
              field_value, field_cell, field_items, stage,
              response_text, parse_result, gpt_responses, judge_table, pending, clicked,
              session_state, scoringVars>>

vars == <<history_file, history_data, opened, now, ret, parsed, data, passes,
          gpt_data, judge_rows, view, field_value, field_cell, field_items, stage,
          response_text, parse_result, gpt_responses, judge_table, pending, clicked,
          session_state, scoringVars>>

(***************************************************************************)
(* Bounds of the model                                                     *)
(***************************************************************************)
MaxSaves == 3       \* save_evaluation calls in one run

\* the characters of a timestamp, in the order of their code points
IsoDigits == <<"0", "1", "2", "3", "4", "5">>
CodePoint(ch) ==
    IF ch = "T" THEN 84
    ELSE 47 + (CHOOSE i \in 1..Len(IsoDigits) : IsoDigits[i] = ch)

Managers == {"m1", "m2"}      \* two sessions opened on the same history file
Files == {"a.xlsx", "b.xlsx"}
QuestionIds == {1, 2}

\* What the callers pass to save_evaluation: file, question, final scores of
\* the original and of the optimized answer (improved, declined, unchanged,
\* and a second record for a question already saved).
SaveInputs ==
    { <<"a.xlsx", 1, 0, 50>>, <<"a.xlsx", 1, 50, 0>>, <<"b.xlsx", 2, 50, 50>> }

NoRet == [op |-> "none", mgr |-> "none", ok |-> TRUE]

\* metadata["gpt_raw"] of a record saved without judge responses
NoGptRaw == [original |-> [t |-> "dict", d |-> <<>>],
             optimized |-> [t |-> "dict", d |-> <<>>]]

\* The records save_evaluation builds (lines 117-133), reduced to the fields
\* the queries, the statistics and the judge review read.
EvaluationRecord(ts, file, qid, fo, fp, gpt_raw) ==
    [timestamp |-> ts, excel_file |-> file, question_id |-> qid,
     final_original |-> fo, final_optimized |-> fp, gpt_raw |-> gpt_raw]

(***************************************************************************)
(* EvaluationHistoryManager                                                *)
(***************************************************************************)
\* _load_history: the file's list, or an empty list when the file is missing
\* or cannot be parsed.
LoadHistory(f) ==
    IF f.exists /\ f.valid THEN f.evaluations ELSE <<>>

\* __init__
NewManager(m) ==
    /\ m \notin opened
    /\ opened' = opened \cup {m}
    /\ history_data' = [history_data EXCEPT ![m] = LoadHistory(history_file)]
    /\ ret' = [op |-> "init", mgr |-> m, ok |-> TRUE]
    /\ UNCHANGED <<history_file, now>>
    /\ UNCHANGED pureVars

\* A buggy variant of the append: replaces the record of the same question.
AppendRecordUpsert(evals, rec) ==
    IF \E i \in 1..Len(evals) : evals[i].question_id = rec.question_id
    THEN [i \in 1..Len(evals) |->
            IF evals[i].question_id = rec.question_id THEN rec ELSE evals[i]]
    ELSE Append(evals, rec)

\* self.history_data["evaluations"].append(evaluation_record)
AppendRecord(evals, rec) == Append(evals, rec)

\* json.dump of the whole in-memory history over the file, opened with 'w'.
WrittenFile(evals) == [exists |-> TRUE, valid |-> TRUE, evaluations |-> evals]

\* open(..., 'w') truncated the file and json.dump failed before the end.
TruncatedFile == [exists |-> TRUE, valid |-> FALSE, evaluations |-> <<>>]

\* save_evaluation: the record is appended to history_data (line 136), then
\* the whole history is written (lines 139-140). The write succeeds, or
\* open(history_file, 'w') raises, or json.dump raises after open truncated
\* the file; the except branch returns False.
SaveEvaluationCall(m, rec, outcome) ==
    /\ m \in opened
    /\ now < MaxSaves
    /\ history_data' = [history_data EXCEPT ![m] = AppendRecord(@, rec)]
    /\ history_file' = CASE outcome = "written" -> WrittenFile(history_data'[m])
                          [] outcome = "open_fails" -> history_file
                          [] outcome = "dump_fails" -> TruncatedFile
    /\ now' = now + 1
    /\ ret' = [op |-> "save", mgr |-> m, ok |-> (outcome = "written")]
    /\ UNCHANGED opened

\* save_evaluation, the write succeeds
SaveEvaluation(m, rec) ==
    SaveEvaluationCall(m, rec, "written") /\ UNCHANGED pureVars

\* save_evaluation, open(history_file, 'w') raises
SaveEvaluationOpenFails(m, rec) ==
    SaveEvaluationCall(m, rec, "open_fails") /\ UNCHANGED pureVars

\* save_evaluation, json.dump raises after open(..., 'w') truncated the file
SaveEvaluationDumpFails(m, rec) ==
    SaveEvaluationCall(m, rec, "dump_fails") /\ UNCHANGED pureVars

\* get_all_evaluations
GetAllEvaluationsOf(m) == history_data[m]

\* get_evaluations_by_file
GetEvaluationsByFileOf(m, name) ==
    SelectSeq(history_data[m], LAMBDA r : r.excel_file = name)

\* datetime.now().isoformat() of the clock reading of a record: a day, "T"
\* and an hour, two records to a day
IsoFormat(ts) == <<IsoDigits[(ts \div 2) + 2], "T", IsoDigits[(ts % 2) + 1]>>

\* a date without a time, as a caller may pass for a bound
IsoDate(day) == <<IsoDigits[day + 1]>>

\* s <= t of two str: the first character that differs decides, and a prefix
\* comes first
StrLeq(s, t) ==
    \/ /\ Len(s) <= Len(t)
       /\ SubSeq(t, 1, Len(s)) = s
    \/ \E i \in 1..Len(s) :
          /\ i <= Len(t)
          /\ SubSeq(s, 1, i - 1) = SubSeq(t, 1, i - 1)
          /\ CodePoint(s[i]) < CodePoint(t[i])

\* get_evaluations_by_date with both bounds left out of the range
GetEvaluationsByDateExclusive(m, start, end) ==
    SelectSeq(history_data[m],
              LAMBDA r : /\ StrLeq(start, IsoFormat(r.timestamp))
                         /\ start # IsoFormat(r.timestamp)
                         /\ StrLeq(IsoFormat(r.timestamp), end)
                         /\ end # IsoFormat(r.timestamp))

\* get_evaluations_by_date: start_date <= timestamp <= end_date on the strings
GetEvaluationsByDateOf(m, start, end) ==
    SelectSeq(history_data[m],
              LAMBDA r : /\ StrLeq(start, IsoFormat(r.timestamp))
                         /\ StrLeq(IsoFormat(r.timestamp), end))

\* the improvement taken the wrong way round
ImprovementReversed(r) == r.final_original - r.final_optimized

\* improvement = optimized final_score - original final_score
Improvement(r) == r.final_optimized - r.final_original

RECURSIVE SumImprovement(_)
SumImprovement(evals) ==
    IF evals = <<>> THEN 0
    ELSE Improvement(Head(evals)) + SumImprovement(Tail(evals))

\* get_statistics with every record that did not decline counted as unchanged
GetStatisticsUnchangedLoose(m) ==
    LET evals == history_data[m] IN
    [total_evaluations |-> Len(evals),
     files_evaluated |-> Cardinality({evals[i].excel_file : i \in 1..Len(evals)}),
     improvement_sum |-> SumImprovement(evals),
     improvement_count |-> IF evals = <<>> THEN 1 ELSE Len(evals),
     questions_with_improvement |->
         Cardinality({i \in 1..Len(evals) : Improvement(evals[i]) > 0}),
     questions_with_decline |->
         Cardinality({i \in 1..Len(evals) : Improvement(evals[i]) < 0}),
     questions_unchanged |->
         Cardinality({i \in 1..Len(evals) : Improvement(evals[i]) >= 0}),
     has_decline_keys |-> evals # <<>>]

\* get_statistics; avg_improvement is kept as the fraction sum / count.
GetStatisticsOf(m) ==
    LET evals == GetAllEvaluationsOf(m) IN
    IF evals = <<>>
    THEN [total_evaluations |-> 0, files_evaluated |-> 0,
          improvement_sum |-> 0, improvement_count |-> 1,
          questions_with_improvement |-> 0,
          questions_with_decline |-> 0, questions_unchanged |-> 0,
          has_decline_keys |-> FALSE]
    ELSE [total_evaluations |-> Len(evals),
          files_evaluated |-> Cardinality({evals[i].excel_file : i \in 1..Len(evals)}),
          improvement_sum |-> SumImprovement(evals),
          improvement_count |-> Len(evals),
          questions_with_improvement |->
              Cardinality({i \in 1..Len(evals) : Improvement(evals[i]) > 0}),
          questions_with_decline |->
              Cardinality({i \in 1..Len(evals) : Improvement(evals[i]) < 0}),
          questions_unchanged |->
              Cardinality({i \in 1..Len(evals) : Improvement(evals[i]) = 0}),
          has_decline_keys |-> TRUE]

\* evaluations = manager.get_evaluations_by_file(excel_filename)
GetEvaluationsByFile(m, excel_filename) ==
    /\ m \in opened
    /\ ret' = [op |-> "by_file", mgr |-> m, ok |-> TRUE,
               excel_filename |-> excel_filename,
               value |-> GetEvaluationsByFileOf(m, excel_filename)]
    /\ UNCHANGED <<history_file, history_data, opened, now>>
    /\ UNCHANGED pureVars

\* evaluations = manager.get_evaluations_by_date(start_date, end_date)
GetEvaluationsByDate(m, start_date, end_date) ==
    /\ m \in opened
    /\ ret' = [op |-> "by_date", mgr |-> m, ok |-> TRUE,
               start_date |-> start_date, end_date |-> end_date,
               value |-> GetEvaluationsByDateOf(m, start_date, end_date)]
    /\ UNCHANGED <<history_file, history_data, opened, now>>
    /\ UNCHANGED pureVars

\* get_all_evaluations, get_evaluations_by_file, get_evaluations_by_date
Query(m) ==
    /\ m \in opened
    /\ ret' = [op |-> "query", mgr |-> m, ok |-> TRUE]
    /\ UNCHANGED <<history_file, history_data, opened, now>>
    /\ UNCHANGED pureVars

\* get_statistics
GetStatistics(m) ==
    /\ m \in opened
    /\ ret' = [op |-> "statistics", mgr |-> m, ok |-> TRUE, value |-> GetStatisticsOf(m)]
    /\ UNCHANGED <<history_file, history_data, opened, now>>
    /\ UNCHANGED pureVars

\* clear_history, the write succeeds
ClearHistory(m) ==
    /\ m \in opened
    /\ history_data' = [history_data EXCEPT ![m] = <<>>]
    /\ history_file' = WrittenFile(<<>>)
    /\ ret' = [op |-> "clear", mgr |-> m, ok |-> TRUE]
    /\ UNCHANGED <<opened, now>>
    /\ UNCHANGED pureVars

(***************************************************************************)
(* Python values of a parsed judge response                                *)
(*   None, numbers (int/float), str, list, dict (a function of its keys)   *)
(***************************************************************************)
NoneV == [t |-> "none"]
Num(n) == [t |-> "num", n |-> n]
Str(s) == [t |-> "str", s |-> s]
List(items) == [t |-> "list", items |-> items]
Dict(d) == [t |-> "dict", d |-> d]
\* a float that is not an integer: num / den in lowest terms
Frac(num, den) == [t |-> "frac", num |-> num, den |-> den]
\* float('nan'), what pandas reads from an empty cell
NaNV == [t |-> "nan"]

EmptyDict == [k \in {} |-> NoneV]

IsDict(v) == v.t = "dict"
\* isinstance(v, (int, float))
IsNumber(v) == v.t \in {"num", "frac"}
IsStr(v) == v.t = "str"
IsList(v) == v.t = "list"

\* d.get(k)
Get(d, k) == IF k \in DOMAIN d THEN d[k] ELSE NoneV

\* d[k] = v
Put(d, k, v) == [x \in DOMAIN d \cup {k} |-> IF x = k THEN v ELSE d[x]]

\* d.pop(k) for a key that may be absent
Pop(d, k) == [x \in DOMAIN d \ {k} |-> d[x]]

\* the strings the model draws text from, and what str.strip() makes of them
Strip(s) ==
    CASE s = " " -> ""
      [] s = " 90 " -> "90"
      [] OTHER -> s

\* float(text) for the strings of the model; the others raise ValueError
NumericText == [s \in {"88", "90"} |-> IF s = "88" THEN 88 ELSE 90]

\* float(v) does not raise: numbers, and strings that hold a number once
\* stripped (None, lists and dicts raise TypeError, other text ValueError)
FloatOk(v) ==
    \/ IsNumber(v)
    \/ IsStr(v) /\ Strip(v.s) \in DOMAIN NumericText

\* float(v)
FloatOf(v) == IF IsNumber(v) THEN v ELSE Num(NumericText[Strip(v.s)])

Abs(x) == IF x < 0 THEN -x ELSE x

RECURSIVE Gcd(_, _)
Gcd(a, b) == IF b = 0 THEN a ELSE Gcd(b, a % b)

\* numerator and denominator of a number
NumOf(v) == IF v.t = "num" THEN v.n ELSE v.num
DenOf(v) == IF v.t = "num" THEN 1 ELSE v.den

\* the number num / den (den > 0), in lowest terms
Rat(num, den) ==
    LET g == Gcd(Abs(num), den)
    IN  IF g = den THEN Num(num \div den) ELSE Frac(num \div g, den \div g)

\* a + b, a - b, a <= b on numbers
Add(a, b) == Rat(NumOf(a) * DenOf(b) + NumOf(b) * DenOf(a), DenOf(a) * DenOf(b))
Sub(a, b) == Rat(NumOf(a) * DenOf(b) - NumOf(b) * DenOf(a), DenOf(a) * DenOf(b))
Leq(a, b) == NumOf(a) * DenOf(b) <= NumOf(b) * DenOf(a)

\* bool(v)
Truthy(v) ==
    CASE v.t = "none" -> FALSE
      [] v.t = "num" -> v.n # 0
      [] v.t = "frac" -> v.num # 0
      [] v.t = "nan" -> TRUE
      [] v.t = "str" -> v.s # ""
      [] v.t = "list" -> v.items # <<>>
      [] v.t = "dict" -> DOMAIN v.d # {}

(***************************************************************************)
(* Judge schema normalisation                                              *)
(***************************************************************************)
GPT_DIMENSION_KEYS == <<"relevance", "completeness", "accuracy", "faithfulness">>

Dimensions == {GPT_DIMENSION_KEYS[i] : i \in 1..Len(GPT_DIMENSION_KEYS)}

\* f"{dim}_reasoning"
ReasoningKey(dim) == dim \o "_reasoning"

\* A buggy synthesis: only int/float values become a score, text is kept raw.
ScoreBlockNumbersOnly(value) ==
    IF IsNumber(value) THEN [score |-> FloatOf(value)]
    ELSE IF value # NoneV THEN [raw_value |-> value]
    ELSE EmptyDict

\* normalize_gpt_schema, lines 341-348 (the same in get_dimension_block,
\* lines 369-376): the block synthesized from a value that is not a dict.
ScoreBlock(value) ==
    IF IsNumber(value) THEN [score |-> FloatOf(value)]
    ELSE IF value # NoneV
         THEN IF FloatOk(value) THEN [score |-> FloatOf(value)]
              ELSE [raw_value |-> value]
    ELSE EmptyDict

\* A buggy pass: the isinstance(value, dict) branch is missing, so a nested
\* block is wrapped again.
NormalizeDimNoDictBranch(d, dim) ==
    LET value == Get(d, dim)
        reasoning_key == ReasoningKey(dim)
        block0 == IF IsDict(value) THEN [raw_value |-> value] ELSE ScoreBlock(value)
        block == IF /\ reasoning_key \in DOMAIN d
                    /\ IsStr(d[reasoning_key])
                    /\ Strip(d[reasoning_key].s) # ""
                 THEN Put(block0, "reasoning", d[reasoning_key])
                 ELSE block0
    IN  Put(Pop(d, reasoning_key), dim, Dict(block))

\* normalize_gpt_schema, one turn of the loop over GPT_DIMENSION_KEYS
NormalizeDim(d, dim) ==
    LET value == Get(d, dim)
        reasoning_key == ReasoningKey(dim)
    IN  IF IsDict(value)
        THEN LET merged ==
                   IF /\ reasoning_key \in DOMAIN d
                      /\ "reasoning" \notin DOMAIN value.d
                      /\ Truthy(d[reasoning_key])
                   THEN Dict(Put(value.d, "reasoning", d[reasoning_key]))
                   ELSE value
             IN  Pop(Put(d, dim, merged), reasoning_key)
        ELSE LET block0 == ScoreBlock(value)
                 block == IF /\ reasoning_key \in DOMAIN d
                             /\ IsStr(d[reasoning_key])
                             /\ Strip(d[reasoning_key].s) # ""
                          THEN Put(block0, "reasoning", d[reasoning_key])
                          ELSE block0
             IN  Put(Pop(d, reasoning_key), dim, Dict(block))

RECURSIVE NormalizeDims(_, _)
NormalizeDims(d, dims) ==
    IF dims = <<>> THEN d
    ELSE NormalizeDims(NormalizeDim(d, Head(dims)), Tail(dims))

\* normalize_gpt_schema
NormalizeGptSchema(v) ==
    IF ~IsDict(v) THEN v
    ELSE Dict(NormalizeDims(v.d, GPT_DIMENSION_KEYS))

\* get_dimension_block
GetDimensionBlock(record, dim) ==
    IF ~IsDict(record) THEN EmptyDict
    ELSE LET value == Get(record.d, dim)
             reasoning_val == Get(record.d, ReasoningKey(dim))
             block0 == ScoreBlock(value)
         IN  IF IsDict(value) THEN value.d
             ELSE IF IsStr(reasoning_val) /\ Strip(reasoning_val.s) # ""
                  THEN Put(block0, "reasoning", reasoning_val)
                  ELSE block0

\* get_dimension_score: a number, or None
GetDimensionScore(record, dim) ==
    LET score == Get(GetDimensionBlock(record, dim), "score")
    IN  IF FloatOk(score) THEN FloatOf(score) ELSE NoneV

(***************************************************************************)
(* Normalising parsed judge mappings: the inputs                           *)
(***************************************************************************)
MaxPasses == 2      \* passes of normalize_gpt_schema over one mapping

\* What a judge may give for one dimension: nothing, null, a bare number, a
\* numeric string, other text, a list, or a nested block (empty, with a score,
\* with a score and a reasoning)
DimensionValues ==
    { NoneV, Num(92), Str("88"), Str(" 90 "), Str("abc"), List(<<"x">>),
      Dict(EmptyDict), Dict([score |-> Num(88)]),
      Dict([score |-> Num(88), reasoning |-> Str("kept")]),
      Dict([reasoning |-> Str("no score")]) }

\* The sibling "<dimension>_reasoning" field: text, empty or blank text, or
\* a value that is no text
ReasoningValues == { Str("why"), Str(""), Str(" "), Num(5) }

\* The entries for one dimension: the dimension key present or absent, the
\* reasoning sibling present or absent.
DimensionEntries(dim, values, reasonings) ==
    LET withValue == {Put(EmptyDict, dim, v) : v \in values} \cup {EmptyDict}
    IN  withValue \cup
        {Put(e, ReasoningKey(dim), r) : e \in withValue, r \in reasonings}

Merge(a, b) == [k \in DOMAIN a \cup DOMAIN b |-> IF k \in DOMAIN a THEN a[k] ELSE b[k]]

\* Parsed judge mappings: flat legacy, nested and mixed; two dimensions take
\* every shape, the other two a bare number or a nested block.
ParsedMappings ==
    { Dict(Merge(Merge(Merge(Merge(a, b), c), e), o)) :
        a \in DimensionEntries("relevance", DimensionValues, ReasoningValues),
        b \in DimensionEntries("completeness", {Num(92), Dict([score |-> Num(88)])},
                               {Str("why")}),
        c \in DimensionEntries("accuracy", {Num(95)}, {}),
        e \in DimensionEntries("faithfulness", {Dict([score |-> Num(90)])}, {}),
        o \in {EmptyDict, [overall |-> Num(91)]} }

IdleNorm == parsed = NoneV /\ data = NoneV /\ passes = 0

InitNorm ==
    /\ parsed \in ParsedMappings \cup {List(<<"x">>), Num(42)}
    /\ data = NoneV
    /\ passes = 0

\* data = normalize_gpt_schema(parsed), then data = normalize_gpt_schema(data)
Normalize ==
    /\ passes < MaxPasses
    /\ data' = NormalizeGptSchema(IF passes = 0 THEN parsed ELSE data)
    /\ passes' = passes + 1
    /\ UNCHANGED parsed
    /\ UNCHANGED <<ledgerVars, viewVars, fieldVars, parseVars, reviewVars, scoringVars>>

(***************************************************************************)
(* prepare_version_view: the per-version view and its overall score        *)
(***************************************************************************)
MaxRows == 2        \* judge table rows of one question and version

\* safe_float: a number, or None
SafeFloat(value) ==
    CASE value.t = "num" -> value
      [] value.t = "frac" -> value
      [] value.t = "str" ->
           IF Strip(value.s) \in DOMAIN NumericText
           THEN Num(NumericText[Strip(value.s)])
           ELSE NoneV
      [] OTHER -> NoneV

\* sum(scores) over the numbers of f
RECURSIVE SumOf(_, _)
SumOf(f, keys) ==
    IF keys = {} THEN Num(0)
    ELSE LET k == CHOOSE x \in keys : TRUE
         IN  Add(f[k], SumOf(f, keys \ {k}))

\* sum / count
Quotient(sum, count) == Rat(NumOf(sum), DenOf(sum) * count)

\* lines 659-705: the dimensions of the view read from the judge table rows;
\* a later row of a dimension replaces an earlier one
RECURSIVE DimensionsFromRows(_, _)
DimensionsFromRows(rows, dims) ==
    IF rows = <<>> THEN dims
    ELSE LET row == Head(rows)
             next == IF row.dimension \in Dimensions
                     THEN Put(dims, row.dimension, [score |-> SafeFloat(row.score)])
                     ELSE dims
         IN  DimensionsFromRows(Tail(rows), next)

\* lines 709-737: the dimensions of the view read from the normalised record
RECURSIVE DimensionsFromRecord(_, _, _)
DimensionsFromRecord(normalized_gpt, keys, dims) ==
    IF keys = <<>> THEN dims
    ELSE LET dim == Head(keys)
             block == GetDimensionBlock(normalized_gpt, dim)
             next == IF block = EmptyDict THEN dims
                     ELSE Put(dims, dim, [score |-> SafeFloat(Get(block, "score"))])
         IN  DimensionsFromRecord(normalized_gpt, Tail(keys), next)

ViewDimensions(rows, record) ==
    LET normalized_gpt == IF IsDict(record) THEN NormalizeGptSchema(record)
                          ELSE Dict(EmptyDict)
        from_rows == DimensionsFromRows(rows, EmptyDict)
    IN  IF from_rows = EmptyDict /\ Truthy(normalized_gpt)
        THEN DimensionsFromRecord(normalized_gpt, GPT_DIMENSION_KEYS, EmptyDict)
        ELSE from_rows

\* A buggy mean: divides by the number of dimension keys.
MeanOfScoresOverFour(dims) ==
    LET scored == {d \in DOMAIN dims : dims[d].score # NoneV}
    IN  IF scored = {} THEN NoneV
        ELSE Quotient(SumOf([d \in scored |-> dims[d].score], scored),
                      Len(GPT_DIMENSION_KEYS))

\* lines 745-748: the mean of the scores that are not None, if there is one
MeanOfScores(dims) ==
    LET scored == {d \in DOMAIN dims : dims[d].score # NoneV}
    IN  IF scored = {} THEN NoneV
        ELSE Quotient(SumOf([d \in scored |-> dims[d].score], scored),
                      Cardinality(scored))

\* prepare_version_view: the dimensions and the overall of the view
PrepareVersionView(rows, record) ==
    LET dims == ViewDimensions(rows, record)
        given == IF IsDict(record) THEN SafeFloat(Get(record.d, "overall")) ELSE NoneV
    IN  [dimensions |-> dims,
         overall |-> IF given = NoneV THEN MeanOfScores(dims) ELSE given]

\* judge table rows as pandas reads them: the dimension and the score cell
TableRows ==
    { [dimension |-> "relevance", score |-> Num(80)],
      [dimension |-> "relevance", score |-> NaNV],
      [dimension |-> "accuracy", score |-> Num(61)],
      [dimension |-> "summary", score |-> Num(10)] }

RECURSIVE SeqsUpTo(_, _)
SeqsUpTo(S, n) ==
    IF n = 0 THEN {<<>>}
    ELSE LET shorter == SeqsUpTo(S, n - 1)
         IN  shorter \cup {Append(q, x) : q \in shorter, x \in S}

\* stored judge records: no record, flat and nested dimensions with and
\* without a score, overall absent, null, a number or text that is no number
ViewRecords ==
    { Dict(Merge(Merge(Merge(a, b), c), o)) :
        a \in DimensionEntries("relevance",
                 {Num(92), Str("abc"), Dict([score |-> Str("88")]),
                  Dict([reasoning |-> Str("no score")])}, {}),
        b \in DimensionEntries("completeness", {Num(88)}, {}),
        c \in DimensionEntries("accuracy", {Num(95)}, {}),
        o \in {EmptyDict, [overall |-> Num(91)], [overall |-> NoneV],
               [overall |-> Str("n/a")]} } \cup {NoneV}

IdleView == gpt_data = NoneV /\ judge_rows = <<>> /\ view = NoneV

InitView ==
    /\ gpt_data \in ViewRecords
    /\ judge_rows \in SeqsUpTo(TableRows, MaxRows)
    /\ view = NoneV

\* view = prepare_version_view(judge_df, question_id, version, answer, gpt_data)
PrepareView ==
    /\ view = NoneV
    /\ view' = PrepareVersionView(judge_rows, gpt_data)
    /\ UNCHANGED <<gpt_data, judge_rows>>
    /\ UNCHANGED <<ledgerVars, normVars, fieldVars, parseVars, reviewVars, scoringVars>>

(***************************************************************************)
(* List-valued fields in the judge table                                   *)
(*   Text is a sequence of characters here; a list is a sequence of texts. *)
(***************************************************************************)
MaxText == 3        \* characters and separators of one list

QUOTE == "\""
BACKSLASH == "\\"
NEWLINE == "NEWLINE"       \* the line feed character
CJK_COMMA == "CJK_COMMA"   \* the ideographic comma that parse_json_list_field splits on

Chars == {"a", "n", ",", "]", " ", QUOTE, BACKSLASH, NEWLINE, CJK_COMMA}

Whitespace == {" ", NEWLINE}

RECURSIVE Concat(_)
Concat(seqs) == IF seqs = <<>> THEN <<>> ELSE Head(seqs) \o Concat(Tail(seqs))

RECURSIVE Join(_, _)
Join(texts, sep) ==
    IF texts = <<>> THEN <<>>
    ELSE IF Len(texts) = 1 THEN texts[1]
    ELSE texts[1] \o sep \o Join(Tail(texts), sep)

\* json.dumps of one character inside a string (ensure_ascii=False)
JsonEscape(ch) ==
    CASE ch = QUOTE -> <<BACKSLASH, QUOTE>>
      [] ch = BACKSLASH -> <<BACKSLASH, BACKSLASH>>
      [] ch = NEWLINE -> <<BACKSLASH, "n">>
      [] OTHER -> <<ch>>

\* json.dumps of a string
JsonString(text) ==
    <<QUOTE>> \o Concat([i \in 1..Len(text) |-> JsonEscape(text[i])]) \o <<QUOTE>>

\* json.dumps of a list of strings
JsonDumps(list) ==
    <<"[">> \o Join([i \in 1..Len(list) |-> JsonString(list[i])], <<",", " ">>) \o <<"]">>

\* str(list): the Python repr, single-quoted
PyRepr(list) ==
    <<"[">> \o Join([i \in 1..Len(list) |-> <<"'">> \o list[i] \o <<"'">>], <<",", " ">>)
        \o <<"]">>

\* A buggy serialisation: the list branch is missing, str(value) is stored.
SerializeJsonFieldStr(v) ==
    IF v = NoneV THEN <<>> ELSE PyRepr(v.items)

\* serialize_json_field, for None and for a list
SerializeJsonField(v) ==
    IF v = NoneV THEN <<>> ELSE JsonDumps(v.items)

\* append_llm_judge_records + load_llm_judge_table: a cell written by to_csv
\* and read by pandas.read_csv; an empty cell is read as NaN
ReadCsvCell(text) == IF text = <<>> THEN NaNV ELSE [t |-> "str", s |-> text]

\* the position of the first character at or after i that is no whitespace
RECURSIVE SkipWhitespace(_, _)
SkipWhitespace(text, i) ==
    IF i <= Len(text) /\ text[i] \in Whitespace THEN SkipWhitespace(text, i + 1) ELSE i

JsonFail == [ok |-> FALSE, val |-> <<>>, next |-> 0]

\* json.loads inside a string, from position i (after the opening quote)
RECURSIVE JsonScanString(_, _, _)
JsonScanString(text, i, acc) ==
    IF i > Len(text) THEN JsonFail
    ELSE IF text[i] = QUOTE THEN [ok |-> TRUE, val |-> acc, next |-> i + 1]
    ELSE IF text[i] = NEWLINE THEN JsonFail       \* control character, strict mode
    ELSE IF text[i] = BACKSLASH
         THEN IF i + 1 > Len(text) THEN JsonFail
              ELSE IF text[i + 1] \in {QUOTE, BACKSLASH}
                   THEN JsonScanString(text, i + 2, Append(acc, text[i + 1]))
              ELSE IF text[i + 1] = "n"
                   THEN JsonScanString(text, i + 2, Append(acc, NEWLINE))
              ELSE JsonFail
    ELSE JsonScanString(text, i + 1, Append(acc, text[i]))

\* json.loads inside an array, from position i where an element must start
RECURSIVE JsonScanElements(_, _, _)
JsonScanElements(text, i, acc) ==
    LET start == SkipWhitespace(text, i) IN
    IF start > Len(text) \/ text[start] # QUOTE THEN JsonFail
    ELSE LET str == JsonScanString(text, start + 1, <<>>) IN
         IF ~str.ok THEN JsonFail
         ELSE LET after == SkipWhitespace(text, str.next) IN
              IF after > Len(text) THEN JsonFail
              ELSE IF text[after] = "]"
                   THEN [ok |-> TRUE, val |-> Append(acc, str.val), next |-> after + 1]
              ELSE IF text[after] = ","
                   THEN JsonScanElements(text, after + 1, Append(acc, str.val))
              ELSE JsonFail

\* json.loads of a text that holds an array of strings; any other text of
\* the model raises JSONDecodeError
JsonLoads(text) ==
    LET start == SkipWhitespace(text, 1) IN
    IF start > Len(text) \/ text[start] # "[" THEN JsonFail
    ELSE LET first == SkipWhitespace(text, start + 1)
             body == IF first <= Len(text) /\ text[first] = "]"
                     THEN [ok |-> TRUE, val |-> <<>>, next |-> first + 1]
                     ELSE JsonScanElements(text, start + 1, <<>>)
         IN  IF body.ok /\ SkipWhitespace(text, body.next) > Len(text)
             THEN body ELSE JsonFail

\* str.strip()
RECURSIVE StripLeft(_)
StripLeft(text) ==
    IF text # <<>> /\ Head(text) \in Whitespace THEN StripLeft(Tail(text)) ELSE text

RECURSIVE StripRight(_)
StripRight(text) ==
    IF text # <<>> /\ text[Len(text)] \in Whitespace
    THEN StripRight(SubSeq(text, 1, Len(text) - 1)) ELSE text

StripText(text) == StripRight(StripLeft(text))

\* text.split(sep) for a one-character separator
RECURSIVE SplitOn(_, _, _)
SplitOn(text, seps, current) ==
    IF text = <<>> THEN <<current>>
    ELSE IF Head(text) \in seps THEN <<current>> \o SplitOn(Tail(text), seps, <<>>)
    ELSE SplitOn(Tail(text), seps, Append(current, Head(text)))

\* [seg.strip() for seg in segments if seg.strip()]
StrippedSegments(segments) ==
    SelectSeq([i \in 1..Len(segments) |-> StripText(segments[i])], LAMBDA x : x # <<>>)

\* parse_json_list_field, for the cells of the table: a list, None, NaN, text
ParseJsonListField(v) ==
    IF v.t = "list" THEN v.items
    ELSE IF v.t \in {"none", "nan"} THEN <<>>
    ELSE LET text == StripText(v.s)
             loaded == JsonLoads(text)
         IN  IF text = <<>> THEN <<>>
             ELSE IF loaded.ok THEN loaded.val
             ELSE IF \E i \in 1..Len(text) : text[i] = CJK_COMMA
                  THEN StrippedSegments(SplitOn(text, {CJK_COMMA}, <<>>))
             ELSE IF \E i \in 1..Len(text) : text[i] = NEWLINE
                  THEN StrippedSegments(SplitOn(text, {NEWLINE}, <<>>))
             ELSE <<text>>

\* The lists of strings a judge may give: every way to cut a text of at most
\* MaxText characters and separators into strings, and the empty list.
SEPARATOR == "SEPARATOR"

FieldLists ==
    {SplitOn(q, {SEPARATOR}, <<>>) : q \in SeqsUpTo(Chars \cup {SEPARATOR}, MaxText)}
        \cup {<<>>}

IdleField == field_value = NoneV /\ field_cell = NoneV /\ field_items = NoneV /\ stage = "idle"

InitField ==
    /\ field_value \in {List(l) : l \in FieldLists}
    /\ field_cell = NoneV
    /\ field_items = NoneV
    /\ stage = "block"

\* create_llm_judge_rows: the field serialised into the row
SerializeField ==
    /\ stage = "block"
    /\ field_cell' = [t |-> "str", s |-> SerializeJsonField(field_value)]
    /\ stage' = "row"
    /\ UNCHANGED <<field_value, field_items>>
    /\ UNCHANGED <<ledgerVars, normVars, viewVars, parseVars, reviewVars, scoringVars>>

\* append_llm_judge_records, then load_llm_judge_table
StoreField ==
    /\ stage = "row"
    /\ field_cell' = ReadCsvCell(field_cell.s)
    /\ stage' = "table"
    /\ UNCHANGED <<field_value, field_items>>
    /\ UNCHANGED <<ledgerVars, normVars, viewVars, parseVars, reviewVars, scoringVars>>

\* prepare_version_view: parse_json_list_field(row.get(...))
ParseField ==
    /\ stage = "table"
    /\ field_items' = ParseJsonListField(field_cell)
    /\ stage' = "view"
    /\ UNCHANGED <<field_value, field_cell>>
    /\ UNCHANGED <<ledgerVars, normVars, viewVars, parseVars, reviewVars, scoringVars>>

(***************************************************************************)
(* Judge response text and parse_gpt_response                              *)
(*   A response text is described by what the parsers make of it: the      *)
(*   value it denotes (payload), how it is written (style), whether prose  *)
(*   surrounds the object and whether whitespace surrounds the text.       *)
(*     json          valid JSON                                            *)
(*     curly         JSON written with curly quotes                        *)
(*     curly_nested  curly-quoted JSON with curly quotes inside a string   *)
(*     curly_array   a JSON array with a curly-quoted string that holds    *)
(*                   an object written in ASCII quotes                     *)
(*     corner        keys and strings in corner brackets or single quotes  *)
(*                   of another script                                     *)
(*     python        a Python literal that is no JSON (single quotes)      *)
(*     unhashable    a dict literal with a list as key, as {[1]: 2}        *)
(*     braced        text in braces that is neither JSON nor a literal     *)
(*     broken        text without braces that is neither                   *)
(*     empty         no text                                               *)
(***************************************************************************)
Text(padded, prose, style, payload) ==
    [padded |-> padded, prose |-> prose, style |-> style, payload |-> payload]

\* a set and a tuple, which ast.literal_eval reads and json.loads does not
SetV == [t |-> "set"]
TupleV == [t |-> "tuple"]

\* a list of strings that also holds an object
ArrayHolding(object) == [t |-> "list", items |-> <<"note">>, holds |-> object]

EmptyText == Text(FALSE, FALSE, "empty", NoneV)

\* whitespace only
BlankText == Text(TRUE, FALSE, "empty", NoneV)

\* response_text.strip()
StripResponse(text) == [text EXCEPT !.padded = FALSE]

\* normalize_json_like_text: curly and full-width quotes become ASCII quotes
NormalizeJsonLikeText(text) ==
    CASE text.style \in {"curly", "curly_array"} -> [text EXCEPT !.style = "json"]
      [] text.style = "curly_nested" -> [text EXCEPT !.style = "braced", !.payload = NoneV]
      [] text.style = "corner" -> [text EXCEPT !.style = "python"]
      [] OTHER -> text

\* json.loads(text) does not raise JSONDecodeError
JsonLoadsOk(text) == ~text.prose /\ text.style = "json"

\* ast.literal_eval(text): a value, SyntaxError / ValueError, or TypeError
LiteralEval(text) ==
    IF text.prose THEN "SyntaxError"
    ELSE CASE text.style \in {"json", "python"} -> "value"
           [] text.style = "unhashable" -> "TypeError"
           [] OTHER -> "SyntaxError"

\* re.search(r'\{.*\}', candidate, re.DOTALL) finds a match
HasBraceMatch(text) ==
    \/ text.style \in {"unhashable", "braced", "curly_nested", "curly_array"}
    \/ text.style \in {"json", "curly", "corner", "python"}
          /\ text.payload.t \in {"dict", "set"}

\* json_match.group().strip(): from the first brace to the last
BraceSnippet(text) ==
    IF text.style = "curly_array"
    THEN Text(FALSE, FALSE, "json", text.payload.holds)
    ELSE [text EXCEPT !.prose = FALSE, !.padded = FALSE]

Returned(v) == [kind |-> "return", value |-> v]
Raised(exc) == [kind |-> "raise", value |-> Str(exc)]
FellThrough == [kind |-> "fall", value |-> NoneV]

\* {"error": ..., "raw_response": response_text}
ErrorRecord(message, text) ==
    Dict([error |-> Str(message), raw_response |-> [t |-> "text", text |-> text]])

\* lines 801-812 and 816-827: json.loads, then ast.literal_eval
TryLoad(text) ==
    IF JsonLoadsOk(text)
    THEN Returned(IF IsDict(text.payload) THEN NormalizeGptSchema(text.payload)
                  ELSE text.payload)
    ELSE CASE LiteralEval(text) = "value" ->
                IF IsDict(text.payload)
                THEN Returned(NormalizeGptSchema(text.payload))
                ELSE FellThrough
           [] LiteralEval(text) = "TypeError" -> Raised("TypeError")
           [] OTHER -> FellThrough

\* one turn of the loop over the candidates
TryCandidate(candidate) ==
    LET whole == TryLoad(candidate)
    IN  IF whole.kind # "fall" THEN whole
        ELSE IF HasBraceMatch(candidate) THEN TryLoad(BraceSnippet(candidate))
        ELSE FellThrough

RECURSIVE TryCandidates(_, _)
TryCandidates(candidates, text) ==
    IF candidates = <<>> THEN Returned(ErrorRecord("unparsable", text))
    ELSE LET r == TryCandidate(Head(candidates))
         IN  IF r.kind # "fall" THEN r
             ELSE TryCandidates(Tail(candidates), text)

\* parse_gpt_response of the dashboard
ParseGptResponse(text) ==
    IF text = EmptyText THEN Returned(ErrorRecord("empty", text))
    ELSE LET raw_text == StripResponse(text)
             normalized_text == NormalizeJsonLikeText(raw_text)
             candidates == IF normalized_text # raw_text
                           THEN <<raw_text, normalized_text>>
                           ELSE <<raw_text>>
         IN  TryCandidates(candidates, text)

\* re.search(r'\{[^}]+\}', ...) of the helper yields a JSON object: the text
\* from the first opening to the first closing brace, none between them
FirstBracePairIsJson(text) ==
    /\ text.style = "json"
    /\ IsDict(text.payload)
    /\ DOMAIN text.payload.d # {}
    /\ \A k \in DOMAIN text.payload.d : text.payload.d[k].t # "dict"

\* GPTManualEvaluationHelper.parse_gpt_response
HelperParseGptResponse(text) ==
    IF JsonLoadsOk(text) THEN Returned(text.payload)
    ELSE IF FirstBracePairIsJson(text) THEN Returned(text.payload)
    ELSE Returned(ErrorRecord("unparsable", text))

(***************************************************************************)
(* validate_scoring_consistency                                            *)
(*   Messages are kept as [code, dim]; the lists keep the order in which   *)
(*   the code appends them.                                                *)
(***************************************************************************)
Message(code, dim) == [code |-> code, dim |-> dim]

\* str(v).strip() for a value that is not None
PyStrStripped(v) == IF IsStr(v) THEN Strip(v.s) ELSE "repr"

\* get_dimension_reasoning
GetDimensionReasoning(record, dim) ==
    LET reasoning == Get(GetDimensionBlock(record, dim), "reasoning")
    IN  IF reasoning = NoneV THEN "" ELSE PyStrStripped(reasoning)

\* lo <= float(v) <= hi
Within(v, lo, hi) == Leq(lo, FloatOf(v)) /\ Leq(FloatOf(v), hi)

\* lines 942-951: the overall score
OverallErrors(record) ==
    LET overall == Get(record.d, "overall")
    IN  IF overall = NoneV THEN <<Message("overall_missing", "")>>
        ELSE IF ~FloatOk(overall) THEN <<Message("overall_unparsable", "")>>
        ELSE IF ~Within(overall, Num(0), Num(100))
             THEN <<Message("overall_out_of_range", "")>>
        ELSE <<>>

\* lines 953-955
OverallReasoningWarnings(record) ==
    LET overall_reasoning == IF "overall_reasoning" \in DOMAIN record.d
                             THEN record.d["overall_reasoning"] ELSE Str("")
    IN  IF ~IsStr(overall_reasoning) \/ Strip(overall_reasoning.s) = ""
        THEN <<Message("overall_reasoning_missing", "")>>
        ELSE <<>>

\* lines 980-989
DriverWarnings(block, dim) ==
    LET drivers == Get(block, "score_drivers")
    IN  IF ~IsDict(drivers) THEN <<Message("drivers_missing", dim)>>
        ELSE (IF ~Truthy(Get(drivers.d, "positive"))
              THEN <<Message("positive_drivers_missing", dim)>> ELSE <<>>)
             \o
             (IF ~Truthy(Get(drivers.d, "negative"))
              THEN <<Message("negative_drivers_missing", dim)>> ELSE <<>>)

\* the ratio of a dimension: relevance.p, completeness.q, accuracy.r,
\* faithfulness.g
RatioKey == [relevance |-> "p", completeness |-> "q", accuracy |-> "r",
             faithfulness |-> "g"]

\* lines 992-1002, 1005-1015, 1028-1037, 1040-1049: the ratio must be in [0, 1]
RatioWarnings(block, dim) ==
    IF Get(block, RatioKey[dim]) = NoneV
    THEN <<Message("ratio_missing", dim)>> ELSE <<>>

\* the ratio checked against the open interval (0, 1)
RatioErrorsExclusive(block, dim) ==
    LET val == Get(block, RatioKey[dim])
    IN  IF val = NoneV THEN <<>>
        ELSE IF ~FloatOk(val) THEN <<Message("ratio_unparsable", dim)>>
        ELSE IF Leq(val, Num(0)) \/ Leq(Num(1), val)
             THEN <<Message("ratio_out_of_range", dim)>>
        ELSE <<>>

RatioErrors(block, dim) ==
    LET val == Get(block, RatioKey[dim])
    IN  IF val = NoneV THEN <<>>
        ELSE IF ~FloatOk(val) THEN <<Message("ratio_unparsable", dim)>>
        ELSE IF ~Within(val, Num(0), Num(1)) THEN <<Message("ratio_out_of_range", dim)>>
        ELSE <<>>

\* lines 1017-1025: completeness.k, advised to be in [0.80, 1.00]
QualityWarnings(block, dim) ==
    LET k_val == Get(block, "k")
    IN  IF dim # "completeness" THEN <<>>
        ELSE IF k_val = NoneV THEN <<Message("k_missing", dim)>>
        ELSE IF FloatOk(k_val) /\ ~Within(k_val, Frac(4, 5), Num(1))
             THEN <<Message("k_out_of_range", dim)>>
        ELSE <<>>

QualityErrors(block, dim) ==
    LET k_val == Get(block, "k")
    IN  IF dim = "completeness" /\ k_val # NoneV /\ ~FloatOk(k_val)
        THEN <<Message("k_unparsable", dim)>>
        ELSE <<>>

\* the loop body when a dimension without a block is passed over in silence
CheckDimensionSkipsMissing(record, dim) ==
    LET block == GetDimensionBlock(record, dim)
        score == GetDimensionScore(record, dim)
        in_range == score # NoneV /\ Within(score, Num(0), Num(100))
    IN  IF block = EmptyDict
        THEN [warnings |-> <<>>, errors |-> <<>>, score |-> NoneV]
        ELSE [warnings |-> <<>>,
              errors |-> IF in_range THEN RatioErrors(block, dim)
                         ELSE <<Message("score_out_of_range", dim)>>,
              score |-> IF in_range THEN score ELSE NoneV]

\* lines 960-1049: one turn of the loop over GPT_DIMENSION_KEYS; score is the
\* entry made in dimension_scores, None when none is made
CheckDimension(record, dim) ==
    LET block == GetDimensionBlock(record, dim)
        score == GetDimensionScore(record, dim)
    IN  IF block = EmptyDict
        THEN [warnings |-> <<>>, errors |-> <<Message("dimension_missing", dim)>>,
              score |-> NoneV]
        ELSE IF score = NoneV
        THEN [warnings |-> <<>>, errors |-> <<Message("score_missing", dim)>>,
              score |-> NoneV]
        ELSE LET in_range == Within(score, Num(0), Num(100))
             IN  [warnings |->
                      (IF GetDimensionReasoning(record, dim) = ""
                       THEN <<Message("reasoning_missing", dim)>> ELSE <<>>)
                      \o DriverWarnings(block, dim)
                      \o RatioWarnings(block, dim)
                      \o QualityWarnings(block, dim),
                  errors |->
                      (IF in_range THEN <<>>
                       ELSE <<Message("score_out_of_range", dim)>>)
                      \o RatioErrors(block, dim)
                      \o QualityErrors(block, dim),
                  score |-> IF in_range THEN score ELSE NoneV]

\* overall against the mean with the tolerance of 2 points left out of the
\* allowed range
MismatchWarningsInclusive(record, checks) ==
    LET overall == Get(record.d, "overall")
        complete == \A dim \in Dimensions : checks[dim].score # NoneV
    IN  IF overall # NoneV /\ complete /\ FloatOk(overall)
        THEN LET expected == Quotient(SumOf([dim \in Dimensions |-> checks[dim].score],
                                            Dimensions),
                                      Len(GPT_DIMENSION_KEYS))
                 diff == Sub(expected, FloatOf(overall))
             IN  IF Abs(NumOf(diff)) >= 2 * DenOf(diff)
                 THEN <<Message("overall_mismatch", "")>> ELSE <<>>
        ELSE <<>>

\* lines 1052-1060: overall against the mean of the four scores
MismatchWarnings(record, checks) ==
    LET overall == Get(record.d, "overall")
        complete == \A dim \in Dimensions : checks[dim].score # NoneV
    IN  IF overall # NoneV /\ complete /\ FloatOk(overall)
        THEN LET expected == Quotient(SumOf([dim \in Dimensions |-> checks[dim].score],
                                            Dimensions),
                                      Len(GPT_DIMENSION_KEYS))
                 diff == Sub(expected, FloatOf(overall))
             IN  IF Abs(NumOf(diff)) > 2 * DenOf(diff)
                 THEN <<Message("overall_mismatch", "")>> ELSE <<>>
        ELSE <<>>

\* the messages of the dimensions in the order of GPT_DIMENSION_KEYS
RECURSIVE CollectMessages(_, _, _)
CollectMessages(checks, keys, level) ==
    IF keys = <<>> THEN <<>>
    ELSE checks[Head(keys)][level] \o CollectMessages(checks, Tail(keys), level)

\* validate_scoring_consistency: (warnings, errors)
ValidateScoringConsistency(parsed_response) ==
    IF ~IsDict(parsed_response)
    THEN [warnings |-> <<>>, errors |-> <<Message("not_an_object", "")>>]
    ELSE LET checks == [dim \in Dimensions |-> CheckDimension(parsed_response, dim)]
         IN  [warnings |->
                  (IF "question_id" \notin DOMAIN parsed_response.d
                   THEN <<Message("question_id_missing", "")>> ELSE <<>>)
                  \o OverallReasoningWarnings(parsed_response)
                  \o CollectMessages(checks, GPT_DIMENSION_KEYS, "warnings")
                  \o MismatchWarnings(parsed_response, checks),
              errors |->
                  OverallErrors(parsed_response)
                  \o CollectMessages(checks, GPT_DIMENSION_KEYS, "errors")]

(***************************************************************************)
(* Judge responses: the inputs                                             *)
(***************************************************************************)
ScoreDrivers == Dict([positive |-> List(<<"a">>), negative |-> List(<<"b">>)])

\* a dimension block as the prompt asks for it
Block(score, metrics) ==
    Dict(Merge([score |-> score, reasoning |-> Str("why"),
                score_drivers |-> ScoreDrivers], metrics))

\* a nested judge response with every field the prompt asks for
NestedJudge(rel, comp, acc, faith, overall) ==
    Dict([question_id |-> Num(1), overall |-> overall,
          overall_reasoning |-> Str("why"),
          relevance |-> Block(rel, [p |-> Frac(23, 25)]),
          completeness |-> Block(comp, [q |-> Frac(9, 10), k |-> Frac(9, 10)]),
          accuracy |-> Block(acc, [r |-> Num(1)]),
          faithfulness |-> Block(faith, [g |-> Frac(1, 2)])])

\* complete and consistent responses
CleanJudgeA == NestedJudge(Num(92), Num(88), Num(95), Num(90), Num(91))
CleanJudgeB == NestedJudge(Num(60), Num(60), Num(60), Num(60), Num(60))

\* a complete and consistent response that gives the answer nothing
ZeroJudge == NestedJudge(Num(0), Num(0), Num(0), Num(0), Num(0))

\* a flat legacy response: scores only, no reasoning, drivers or ratios
FlatJudge ==
    Dict([relevance |-> Num(92), completeness |-> Num(88), accuracy |-> Num(95),
          faithfulness |-> Num(90), overall |-> Num(91),
          relevance_reasoning |-> Str("why")])

\* a complete response whose overall is far from the mean of its scores
MismatchJudge == NestedJudge(Num(92), Num(88), Num(95), Num(90), Num(50))

\* a score out of range, no overall, no dimensions
OutOfRangeJudge == NestedJudge(Num(150), Num(88), Num(95), Num(90), Num(91))
NoOverallJudge == Dict(Pop(CleanJudgeA.d, "overall"))
EmptyJudge == Dict(EmptyDict)

JudgeObjects ==
    { CleanJudgeA, CleanJudgeB, FlatJudge, MismatchJudge, OutOfRangeJudge,
      NoOverallJudge, EmptyJudge }

\* every way of writing a response: objects in each style, JSON scalars and
\* lists, Python tuples and sets, text that is no literal; each bare or inside
\* prose, with or without surrounding whitespace
ResponseTexts ==
    { Text(padded, prose, style, payload) :
        padded \in BOOLEAN, prose \in BOOLEAN,
        style \in {"json", "curly", "curly_nested", "corner", "python"},
        payload \in JudgeObjects }
    \cup { Text(padded, prose, "json", payload) :
             padded \in BOOLEAN, prose \in BOOLEAN,
             payload \in {Num(42), Str("ok"), List(<<"x">>)} }
    \cup { Text(padded, prose, "python", payload) :
             padded \in BOOLEAN, prose \in BOOLEAN, payload \in {SetV, TupleV} }
    \cup { Text(padded, prose, style, NoneV) :
             padded \in BOOLEAN, prose \in BOOLEAN,
             style \in {"unhashable", "braced", "broken"} }
    \cup { Text(padded, prose, "curly_array", ArrayHolding(payload)) :
             padded \in BOOLEAN, prose \in BOOLEAN,
             payload \in {CleanJudgeA, FlatJudge} }
    \cup { EmptyText, BlankText }

NotParsed == [by |-> "none", kind |-> "none", value |-> NoneV]

IdleParse == response_text = EmptyText /\ parse_result = NotParsed

InitParse ==
    /\ response_text \in ResponseTexts
    /\ parse_result = NotParsed

\* parsed = parse_gpt_response(response_text)
ParseResponse ==
    /\ parse_result = NotParsed
    /\ parse_result' = [by |-> "dashboard"] @@ ParseGptResponse(response_text)
    /\ UNCHANGED response_text
    /\ UNCHANGED <<ledgerVars, normVars, viewVars, fieldVars, reviewVars, scoringVars>>

\* helper.parse_gpt_response(response_text)
HelperParseResponse ==
    /\ parse_result = NotParsed
    /\ parse_result' = [by |-> "helper"] @@ HelperParseGptResponse(response_text)
    /\ UNCHANGED response_text
    /\ UNCHANGED <<ledgerVars, normVars, viewVars, fieldVars, reviewVars, scoringVars>>

(***************************************************************************)
(* The manual judge review (tab 2)                                         *)
(*   One action is one run of the script: Streamlit reruns the script on   *)
(*   every click, and st.button returns True only for the button clicked.  *)
(***************************************************************************)
Versions == {"original", "optimized"}

\* results_df: the questions of the loaded file (the column of question
\* numbers) with their final scores
ResultsDf == << [seq_no |-> 1, final_original |-> 40, final_optimized |-> 60] >>

\* st.session_state.current_excel_filename
CurrentExcelFilename == "a.xlsx"

\* st.session_state.history_manager
SessionManager == "m1"

NoPending == [version |-> "none", question_id |-> 0, parsed |-> NoneV]
NoClick == [button |-> "none", version |-> "none", question_id |-> 0,
            text |-> EmptyText]

MaxStores == 2      \* judge responses stored in one session

\* the texts pasted into the response box: complete responses, a response
\* with warnings only, one with an error, a bare number, text that is no
\* JSON, a literal that makes the parser raise, whitespace
PastedTexts ==
    { Text(FALSE, FALSE, "json", payload) :
        payload \in {CleanJudgeA, CleanJudgeB, ZeroJudge, FlatJudge, OutOfRangeJudge,
                     Num(42)} }
    \cup { Text(FALSE, FALSE, "broken", NoneV),
           Text(FALSE, FALSE, "unhashable", NoneV),
           BlankText }

\* 'error' in parsed: key lookup in a dict, membership in a list, substring
\* of a string; TypeError for a number
ErrorIn(v) ==
    CASE v.t = "dict" -> IF "error" \in DOMAIN v.d THEN "yes" ELSE "no"
      [] v.t = "list" -> IF \E i \in 1..Len(v.items) : v.items[i] = "error"
                         THEN "yes" ELSE "no"
      [] v.t = "str" -> IF v.s = "error" THEN "yes" ELSE "no"
      [] OTHER -> "TypeError"

\* A buggy handler: the errors of the validation are not looked at.
SaveOutcomeIgnoringErrors(text) ==
    IF StripResponse(text) = EmptyText THEN "no_text"
    ELSE LET r == ParseGptResponse(text)
         IN  IF r.kind = "raise" \/ ErrorIn(r.value) = "TypeError" THEN "exception"
             ELSE IF ErrorIn(r.value) = "yes"
                  THEN IF IsDict(r.value) THEN "parse_error" ELSE "exception"
             ELSE LET v == ValidateScoringConsistency(r.value)
                  IN  IF v.warnings # <<>> THEN "warnings"
                      ELSE "store"

\* lines 1977-2037 and 2105-2165: the branch the save handler takes
SaveOutcome(text) ==
    IF StripResponse(text) = EmptyText THEN "no_text"
    ELSE LET r == ParseGptResponse(text)
         IN  IF r.kind = "raise" \/ ErrorIn(r.value) = "TypeError" THEN "exception"
             ELSE IF ErrorIn(r.value) = "yes"
                  THEN IF IsDict(r.value) THEN "parse_error" ELSE "exception"
             ELSE LET v == ValidateScoringConsistency(r.value)
                  IN  IF v.errors # <<>> THEN "errors"
                      ELSE IF v.warnings # <<>> THEN "warnings"
                      ELSE "store"

\* create_llm_judge_rows: one row for each dimension that has a block
RECURSIVE CreateLlmJudgeRows(_, _, _, _)
CreateLlmJudgeRows(question_id, version_label, record, keys) ==
    IF ~IsDict(record) \/ keys = <<>> THEN <<>>
    ELSE LET block == GetDimensionBlock(NormalizeGptSchema(record), Head(keys))
             rest == CreateLlmJudgeRows(question_id, version_label, record, Tail(keys))
         IN  IF block = EmptyDict THEN rest
             ELSE <<[question_id |-> question_id, version |-> version_label,
                     dimension |-> Head(keys), score |-> Get(block, "score")]>>
                  \o rest

\* auto_save_evaluation with the judge table rows appended whether or not the
\* ledger write succeeded
AutoSaveEvaluationRowsAlways(actual_question_id, responses, outcome) ==
    LET has_original == actual_question_id \in DOMAIN responses["original"]
        has_optimized == actual_question_id \in DOMAIN responses["optimized"]
        matching_rows == {i \in 1..Len(ResultsDf) : ResultsDf[i].seq_no = actual_question_id}
    IN  IF ~(has_original \/ has_optimized) \/ matching_rows = {}
        THEN /\ ret' = [op |-> "auto_save", mgr |-> SessionManager, ok |-> FALSE]
             /\ UNCHANGED <<history_file, history_data, opened, now, judge_table>>
        ELSE LET row == ResultsDf[CHOOSE i \in matching_rows :
                                    \A j \in matching_rows : i <= j]
                 gpt_raw_original == IF has_original
                                     THEN responses["original"][actual_question_id]
                                     ELSE Dict(EmptyDict)
                 gpt_raw_optimized == IF has_optimized
                                      THEN responses["optimized"][actual_question_id]
                                      ELSE Dict(EmptyDict)
                 record == EvaluationRecord(now, CurrentExcelFilename,
                              actual_question_id, row.final_original,
                              row.final_optimized,
                              [original |-> gpt_raw_original,
                               optimized |-> gpt_raw_optimized])
                 rows == (IF has_original /\ Truthy(gpt_raw_original)
                          THEN CreateLlmJudgeRows(actual_question_id, "original",
                                   gpt_raw_original, GPT_DIMENSION_KEYS)
                          ELSE <<>>)
                         \o
                         (IF has_optimized /\ Truthy(gpt_raw_optimized)
                          THEN CreateLlmJudgeRows(actual_question_id, "optimized",
                                   gpt_raw_optimized, GPT_DIMENSION_KEYS)
                          ELSE <<>>)
             IN  /\ SaveEvaluationCall(SessionManager, record, outcome)
                 /\ judge_table' = judge_table \o rows

\* auto_save_evaluation: one ledger record with the judge responses the
\* session holds for the question, then the judge table rows when the ledger
\* write succeeded
AutoSaveEvaluation(actual_question_id, responses, outcome) ==
    LET has_original == actual_question_id \in DOMAIN responses["original"]
        has_optimized == actual_question_id \in DOMAIN responses["optimized"]
        matching_rows == {i \in 1..Len(ResultsDf) : ResultsDf[i].seq_no = actual_question_id}
    IN  IF ~(has_original \/ has_optimized) \/ matching_rows = {}
        THEN /\ ret' = [op |-> "auto_save", mgr |-> SessionManager, ok |-> FALSE]
             /\ UNCHANGED <<history_file, history_data, opened, now, judge_table>>
        ELSE LET row == ResultsDf[CHOOSE i \in matching_rows :
                                    \A j \in matching_rows : i <= j]
                 gpt_raw_original == IF has_original
                                     THEN responses["original"][actual_question_id]
                                     ELSE Dict(EmptyDict)
                 gpt_raw_optimized == IF has_optimized
                                      THEN responses["optimized"][actual_question_id]
                                      ELSE Dict(EmptyDict)
                 record == EvaluationRecord(now, CurrentExcelFilename,
                              actual_question_id, row.final_original,
                              row.final_optimized,
                              [original |-> gpt_raw_original,
                               optimized |-> gpt_raw_optimized])
                 rows == (IF has_original /\ Truthy(gpt_raw_original)
                          THEN CreateLlmJudgeRows(actual_question_id, "original",
                                   gpt_raw_original, GPT_DIMENSION_KEYS)
                          ELSE <<>>)
                         \o
                         (IF has_optimized /\ Truthy(gpt_raw_optimized)
                          THEN CreateLlmJudgeRows(actual_question_id, "optimized",
                                   gpt_raw_optimized, GPT_DIMENSION_KEYS)
                          ELSE <<>>)
             IN  /\ SaveEvaluationCall(SessionManager, record, outcome)
                 /\ judge_table' = IF outcome = "written" THEN judge_table \o rows
                                   ELSE judge_table

\* a DataFrame of evaluation results
Frame(rows) == [t |-> "frame", rows |-> rows]

\* evaluator.evaluate_all() on each file a user may select
EvaluateAll ==
    [file \in Files |->
        IF file = CurrentExcelFilename THEN Frame(ResultsDf)
        ELSE Frame(<< [seq_no |-> 1, final_original |-> 70, final_optimized |-> 30] >>)]

\* current_excel_filename = None
NoFilename == "None"

\* lines 42-58: the session state of a new session
NewSessionState ==
    [current_excel_filename |-> NoFilename, comparison_results |-> NoneV,
     gpt_responses_loaded |-> FALSE]

\* the session state after the first script run on the file of the session
RunningSessionState ==
    [current_excel_filename |-> CurrentExcelFilename,
     comparison_results |-> EvaluateAll[CurrentExcelFilename],
     gpt_responses_loaded |-> TRUE]

IdleReview ==
    /\ gpt_responses = [v \in Versions |-> EmptyDict]
    /\ judge_table = <<>>
    /\ pending = NoPending
    /\ clicked = NoClick
    /\ session_state = RunningSessionState

\* the session after its first script run: the history manager is constructed
\* on a store that does not exist yet, no judge response is held
InitReview ==
    /\ history_file = [exists |-> FALSE, valid |-> FALSE, evaluations |-> <<>>]
    /\ history_data = [m \in Managers |-> <<>>]
    /\ opened = {SessionManager}
    /\ now = 0
    /\ ret = NoRet
    /\ IdleReview

\* what the save handler makes of each pasted text: the branch it takes and
\* the value parse_gpt_response returned
PastedOutcome == [text \in PastedTexts |-> SaveOutcome(text)]
PastedParsed == [text \in PastedTexts |-> ParseGptResponse(text).value]

\* a click on the save button of a version, with the text of the response
\* box; outcome is what happens to the write of the ledger if one is made
ClickSave(version, question_selector, text, outcome) ==
    LET actual_question_id == ResultsDf[question_selector].seq_no
    IN  /\ clicked' = [button |-> "save", version |-> version,
                       question_id |-> actual_question_id, text |-> text]
        /\ UNCHANGED session_state
        /\ CASE PastedOutcome[text] = "store" ->
                  /\ now < MaxStores
                  /\ gpt_responses' =
                        [gpt_responses EXCEPT
                            ![version] = Put(@, actual_question_id, PastedParsed[text])]
                  /\ AutoSaveEvaluation(actual_question_id, gpt_responses', outcome)
                  /\ pending' = NoPending
             [] PastedOutcome[text] = "warnings" ->
                  /\ outcome = "written"
                  /\ pending' = [version |-> version,
                                 question_id |-> actual_question_id,
                                 parsed |-> PastedParsed[text]]
                  /\ UNCHANGED <<gpt_responses, judge_table, ledgerVars>>
             [] OTHER ->
                  /\ outcome = "written"
                  /\ pending' = NoPending
                  /\ UNCHANGED <<gpt_responses, judge_table, ledgerVars>>
        /\ UNCHANGED <<normVars, viewVars, fieldVars, parseVars, scoringVars>>

\* a click on the force-save or on the recheck button, which the last run
\* rendered inside the branch of the save button: in this run the save button
\* returns False, so the branch that holds both buttons is not entered
ClickNested(button) ==
    /\ pending # NoPending
    /\ clicked' = [button |-> button, version |-> pending.version,
                   question_id |-> pending.question_id, text |-> clicked.text]
    /\ pending' = NoPending
    /\ UNCHANGED <<gpt_responses, judge_table, session_state, ledgerVars>>
    /\ UNCHANGED <<normVars, viewVars, fieldVars, parseVars, scoringVars>>

\* a click on "clear all judge scores"
ClickClearAllGpt ==
    /\ clicked' = [NoClick EXCEPT !.button = "clear_all_gpt"]
    /\ gpt_responses' = [v \in Versions |-> EmptyDict]
    /\ pending' = NoPending
    /\ UNCHANGED <<judge_table, session_state, ledgerVars>>
    /\ UNCHANGED <<normVars, viewVars, fieldVars, parseVars, scoringVars>>

\* one call of auto_save_evaluation: s holds the result table and the file
\* name of the session, and its ledger, the history file, the clock, the judge
\* table and saved_count as the calls before left them
AutoSaveTurn(s, actual_question_id, responses, outcome) ==
    LET has_original == actual_question_id \in DOMAIN responses["original"]
        has_optimized == actual_question_id \in DOMAIN responses["optimized"]
        matching_rows == {i \in 1..Len(s.results_df) : s.results_df[i].seq_no = actual_question_id}
    IN  IF ~(has_original \/ has_optimized) \/ matching_rows = {}
        THEN s
        ELSE LET row == s.results_df[CHOOSE i \in matching_rows :
                                    \A j \in matching_rows : i <= j]
                 gpt_raw_original == IF has_original
                                     THEN responses["original"][actual_question_id]
                                     ELSE Dict(EmptyDict)
                 gpt_raw_optimized == IF has_optimized
                                      THEN responses["optimized"][actual_question_id]
                                      ELSE Dict(EmptyDict)
                 record == EvaluationRecord(s.now, s.current_excel_filename,
                              actual_question_id, row.final_original,
                              row.final_optimized,
                              [original |-> gpt_raw_original,
                               optimized |-> gpt_raw_optimized])
                 rows == (IF has_original /\ Truthy(gpt_raw_original)
                          THEN CreateLlmJudgeRows(actual_question_id, "original",
                                   gpt_raw_original, GPT_DIMENSION_KEYS)
                          ELSE <<>>)
                         \o
                         (IF has_optimized /\ Truthy(gpt_raw_optimized)
                          THEN CreateLlmJudgeRows(actual_question_id, "optimized",
                                   gpt_raw_optimized, GPT_DIMENSION_KEYS)
                          ELSE <<>>)
                 evaluations == AppendRecord(s.history_data, record)
             IN  [results_df |-> s.results_df,
                  current_excel_filename |-> s.current_excel_filename,
                  history_data |-> evaluations,
                  history_file |-> IF outcome = "written" THEN WrittenFile(evaluations)
                                   ELSE s.history_file,
                  now |-> s.now + 1,
                  judge_table |-> IF outcome = "written" THEN s.judge_table \o rows
                                  ELSE s.judge_table,
                  saved_count |-> IF outcome = "written" THEN s.saved_count + 1
                                  ELSE s.saved_count]

\* for idx in range(len(results_df)): auto_save_evaluation(idx, ...), from
\* turn idx on
\* what a call of auto_save_evaluation finds in the session
SessionLedger ==
    [results_df |-> session_state.comparison_results.rows,
     current_excel_filename |-> session_state.current_excel_filename,
     history_data |-> history_data[SessionManager], history_file |-> history_file,
     now |-> now, judge_table |-> judge_table, saved_count |-> 0]

RECURSIVE ManualSaveAllFrom(_, _, _, _)
ManualSaveAllFrom(s, idx, responses, outcome) ==
    IF idx >= Len(s.results_df) THEN s
    ELSE ManualSaveAllFrom(AutoSaveTurn(s, idx, responses, outcome), idx + 1,
                           responses, outcome)

\* a click on "save all to history" (lines 2225-2237); outcome is what
\* happens to the writes of the ledger
ClickManualSaveAll(outcome) ==
    LET before == SessionLedger
        after == ManualSaveAllFrom(before, 0, gpt_responses, outcome)
    IN  /\ session_state.comparison_results # NoneV
        /\ now + Len(before.results_df) <= MaxSaves
        /\ clicked' = [NoClick EXCEPT !.button = "manual_save_all"]
        /\ history_data' = [history_data EXCEPT ![SessionManager] = after.history_data]
        /\ history_file' = after.history_file
        /\ now' = after.now
        /\ judge_table' = after.judge_table
        /\ ret' = [op |-> "manual_save_all", mgr |-> SessionManager, ok |-> TRUE,
                   saved_count |-> after.saved_count]
        /\ pending' = NoPending
        /\ UNCHANGED <<opened, gpt_responses, session_state>>
        /\ UNCHANGED <<normVars, viewVars, fieldVars, parseVars, scoringVars>>

(***************************************************************************)
(* validate_scoring_consistency applied to parsed responses: the inputs    *)
(***************************************************************************)
\* scores, ratios, quality coefficients and overall scores a judge may write
ScoreValues == {Num(92), Num(0), Num(100), Num(150), Num(-5), Str("88"), NoneV}
RatioValues == {Frac(23, 25), Num(0), Num(1), Frac(3, 2), Frac(-1, 10), Str("abc"), NoneV}
QualityValues == {Frac(9, 10), Frac(4, 5), Num(1), Frac(1, 2), Frac(11, 10), NoneV}
OverallValues ==
    {Num(91), Frac(357, 4), Num(89), Frac(373, 4), Num(94), Num(150), Str("abc"), NoneV}

\* a nested response whose relevance and completeness blocks vary
JudgeWith(rel, comp, overall) ==
    Dict([question_id |-> Num(1), overall |-> overall,
          overall_reasoning |-> Str("why"),
          relevance |-> rel,
          completeness |-> comp,
          accuracy |-> Block(Num(95), [r |-> Num(1)]),
          faithfulness |-> Block(Num(90), [g |-> Frac(1, 2)])])

VariedJudges ==
    { JudgeWith(Block(score, [p |-> p]),
                Block(Num(88), [q |-> Frac(9, 10), k |-> k]), overall) :
        score \in ScoreValues, p \in RatioValues, k \in QualityValues,
        overall \in OverallValues }

\* CleanJudgeA with one field of one dimension block replaced or removed
WithBlockField(dim, key, v) ==
    Dict(Put(CleanJudgeA.d, dim, Dict(Put(CleanJudgeA.d[dim].d, key, v))))
WithoutBlockField(dim, key) ==
    Dict(Put(CleanJudgeA.d, dim, Dict(Pop(CleanJudgeA.d[dim].d, key))))

\* responses that lack a part, or carry one bad value
DefectiveJudges ==
    { Dict(Pop(CleanJudgeA.d, dim)) : dim \in Dimensions }
    \cup { Dict(Put(CleanJudgeA.d, dim, Dict(EmptyDict))) : dim \in Dimensions }
    \cup { Dict(Put(CleanJudgeA.d, dim, Str("abc"))) : dim \in Dimensions }
    \cup { WithBlockField(dim, RatioKey[dim], v) :
             dim \in Dimensions, v \in {Frac(3, 2), Frac(-1, 10), Str("abc")} }
    \cup { WithoutBlockField(dim, key) :
             dim \in Dimensions, key \in {"score", "reasoning", "score_drivers"} }
    \cup { WithoutBlockField(dim, RatioKey[dim]) : dim \in Dimensions }
    \cup { WithBlockField(dim, "score_drivers", v) :
             dim \in Dimensions,
             v \in {Dict([positive |-> List(<<"a">>)]),
                    Dict([positive |-> List(<<>>), negative |-> List(<<"b">>)]),
                    Str("none")} }
    \cup { WithBlockField(dim, "score", Num(101)) : dim \in Dimensions }
    \cup { Dict(Pop(CleanJudgeA.d, "question_id")),
           Dict(Pop(CleanJudgeA.d, "overall_reasoning")),
           Dict(Put(CleanJudgeA.d, "overall_reasoning", Str(" "))),
           WithoutBlockField("completeness", "k"),
           \* relevance without a score and with p out of range
           Dict(Put(CleanJudgeA.d, "relevance", Dict([p |-> Frac(3, 2)]))),
           \* every score 100 and overall 101
           NestedJudge(Num(100), Num(100), Num(100), Num(100), Num(101)),
           FlatJudge, NormalizeGptSchema(FlatJudge), NoOverallJudge, EmptyJudge,
           Num(42), List(<<"x">>) }

ValidatedResponses == VariedJudges \cup DefectiveJudges

NotValidated == [done |-> FALSE, warnings |-> <<>>, errors |-> <<>>]

IdleValidate == judge_record = NoneV /\ validation = NotValidated

InitValidate ==
    /\ judge_record \in ValidatedResponses
    /\ validation = NotValidated

\* warnings, errors = validate_scoring_consistency(parsed, question, answer)
Validate ==
    /\ ~validation.done
    /\ validation' = [done |-> TRUE] @@ ValidateScoringConsistency(judge_record)
    /\ UNCHANGED judge_record
    /\ UNCHANGED <<dashboardVars, layerVars, overallVars, coverageVars, faithVars, semanticVars>>

(***************************************************************************)
(* RAGEvaluatorV2 (rag_evaluation_two_models_v2.py): the layers, their     *)
(* weights and the final score.  Weights are counted in tenths, as the     *)
(* sliders of the sidebar step by 0.1; scores are whole points.            *)
(***************************************************************************)
Layers == {"keyword", "semantic", "gpt"}

Weights(keyword, semantic, gpt) ==
    [keyword |-> keyword, semantic |-> semantic, gpt |-> gpt]

\* _initialize_weights: the caller's weights when given (a non-empty dict),
\* else the defaults of the enabled layers
InitializeWeights(weights, enable_semantic, enable_gpt) ==
    IF weights # NoneV THEN weights
    ELSE IF enable_semantic /\ enable_gpt THEN Weights(3, 3, 4)
    ELSE IF enable_semantic THEN Weights(5, 5, 0)
    ELSE IF enable_gpt THEN Weights(4, 0, 6)
    ELSE Weights(10, 0, 0)

\* RAGEvaluatorV2.__init__: semantic_available is SEMANTIC_AVAILABLE (the
\* sentence_transformers import worked), model_loads whether SentenceTransformer(...)
\* returns, gpt_available is GPT_AVAILABLE, has_key whether openai_api_key is given
NewEvaluator(enable_semantic, enable_gpt, has_key, weights, semantic_available, model_loads, gpt_available) ==
    LET semantic_on == enable_semantic /\ semantic_available /\ model_loads
        gpt_on == enable_gpt /\ gpt_available /\ has_key
    IN  [enable_semantic |-> semantic_on,
         enable_gpt |-> gpt_on,
         weights |-> InitializeWeights(weights, semantic_on, gpt_on)]

\* the weights a caller of the constructor may pass: none, or any mapping
CallerWeights ==
    {NoneV, Weights(3, 3, 4), Weights(5, 5, 0), Weights(10, 0, 0),
     Weights(5, 5, 5), Weights(0, 0, 0)}

\* the positions of a weight slider: 0.0 to 1.0 in steps of 0.1
SliderStops == {0, 3, 5, 8, 10}

\* sidebar, lines 1402-1430: the weights dict built from the two checkboxes and
\* the sliders
SidebarWeights(enable_semantic, enable_manual_gpt, weight_keyword, weight_semantic) ==
    IF enable_semantic /\ enable_manual_gpt
    THEN Weights(weight_keyword, weight_semantic, 10 - weight_keyword - weight_semantic)
    ELSE IF enable_semantic THEN Weights(weight_keyword, 10 - weight_keyword, 0)
    ELSE IF enable_manual_gpt THEN Weights(weight_keyword, 0, 10 - weight_keyword)
    ELSE Weights(10, 0, 0)

NotEvaluated == [done |-> FALSE]

IdleLayers == evaluator = NoneV /\ layer_result = NotEvaluated

\* RAGEvaluatorV2(path, enable_semantic=..., enable_gpt=..., openai_api_key=...,
\*                weights=...)
ConstructEvaluator(enable_semantic, enable_gpt, has_key, weights, semantic_available, model_loads, gpt_available) ==
    /\ evaluator = NoneV
    /\ evaluator' = [by |-> "caller"] @@
                     NewEvaluator(enable_semantic, enable_gpt, has_key, weights,
                                  semantic_available, model_loads, gpt_available)
    /\ UNCHANGED layer_result
    /\ UNCHANGED <<dashboardVars, validateVars, overallVars, coverageVars, faithVars, semanticVars>>

\* the dashboard run that builds the evaluator from the sidebar settings
\* (lines 1376-1430 and 1496-1510); it never enables the API judge
SidebarEvaluator(enable_semantic, enable_manual_gpt, weight_keyword, weight_semantic, semantic_available, model_loads) ==
    /\ evaluator = NoneV
    /\ evaluator' = [by |-> "dashboard"] @@
                     NewEvaluator(enable_semantic, FALSE, FALSE,
                                  SidebarWeights(enable_semantic, enable_manual_gpt,
                                                 weight_keyword, weight_semantic),
                                  semantic_available, model_loads, FALSE)
    /\ UNCHANGED layer_result
    /\ UNCHANGED <<dashboardVars, validateVars, overallVars, coverageVars, faithVars, semanticVars>>

\* the scores a layer may give
LayerScores == {0, 50, 100}

\* evaluate_answer, lines 466-504: keyword_score is what calculate_keyword_coverage
\* returns, semantic_similarity and gpt_overall what the two optional layers
\* return when they are enabled
EvaluateAnswerOf(e, keyword_score, semantic_similarity, gpt_overall) ==
    LET semantic_score == IF e.enable_semantic THEN semantic_similarity ELSE 0
        gpt_score == IF e.enable_gpt THEN gpt_overall ELSE 0
    IN  [done |-> TRUE,
         keyword_coverage |-> keyword_score,
         semantic_similarity |-> semantic_score,
         gpt_overall |-> gpt_score,
         final_score |-> Rat(keyword_score * e.weights.keyword
                             + semantic_score * e.weights.semantic
                             + gpt_score * e.weights.gpt, 10),
         weights_used |-> e.weights]

EvaluateAnswer(keyword_score, semantic_similarity, gpt_overall) ==
    /\ evaluator # NoneV
    /\ ~layer_result.done
    /\ layer_result' = EvaluateAnswerOf(evaluator, keyword_score,
                                        semantic_similarity, gpt_overall)
    /\ UNCHANGED evaluator
    /\ UNCHANGED <<dashboardVars, validateVars, overallVars, coverageVars, faithVars, semanticVars>>

(***************************************************************************)
(* The judge overall recomputed from the selected dimensions               *)
(* (get_selected_gpt_dimensions, get_gpt_dimension_weights,                *)
(* compute_gpt_overall).  Configured weights are counted in steps of 0.05. *)
(***************************************************************************)
\* the members of a sequence
Range(s) == {s[i] : i \in 1..Len(s)}

\* a * b and a / b (b > 0) on numbers
Mul(a, b) == Rat(NumOf(a) * NumOf(b), DenOf(a) * DenOf(b))
Div(a, b) == Rat(NumOf(a) * DenOf(b), DenOf(a) * NumOf(b))

DEFAULT_GPT_DIMENSIONS == GPT_DIMENSION_KEYS

\* the members of keys that satisfy keep, in order
RECURSIVE KeepDims(_, _)
KeepDims(keys, keep) ==
    IF keys = <<>> THEN <<>>
    ELSE (IF Head(keys) \in keep THEN <<Head(keys)>> ELSE <<>>)
         \o KeepDims(Tail(keys), keep)

\* get_selected_gpt_dimensions: at least one dimension
GetSelectedGptDimensions(settings) ==
    LET filtered == KeepDims(settings.selected, Dimensions)
    IN  IF filtered = <<>> THEN DEFAULT_GPT_DIMENSIONS ELSE filtered

\* lines 857-863: the configured weight of a dimension, 0.0 when it is absent,
\* not a number or negative
ConfiguredWeight(weights_setting, dim) ==
    LET value == Get(weights_setting, dim)
    IN  IF IsNumber(value) /\ Leq(Num(0), value) THEN value ELSE Num(0)

\* the total of the configured weights of the selected dimensions
RECURSIVE TotalWeight(_, _)
TotalWeight(weights_setting, selected_dims) ==
    IF selected_dims = <<>> THEN Num(0)
    ELSE Add(ConfiguredWeight(weights_setting, Head(selected_dims)),
             TotalWeight(weights_setting, Tail(selected_dims)))

\* the weights without the equal split for a total of zero
GetGptDimensionWeightsNoFallback(weights_setting, selected_dims) ==
    LET total == TotalWeight(weights_setting, selected_dims)
    IN  [dim \in Range(selected_dims) |->
            IF Leq(total, Num(0)) THEN Num(0)
            ELSE Div(ConfiguredWeight(weights_setting, dim), total)]

\* get_gpt_dimension_weights: the normalised weights of the selected dimensions
GetGptDimensionWeights(weights_setting, selected_dims) ==
    LET total == TotalWeight(weights_setting, selected_dims)
    IN  [dim \in Range(selected_dims) |->
            IF Leq(total, Num(0)) THEN Rat(1, Len(selected_dims))
            ELSE Div(ConfiguredWeight(weights_setting, dim), total)]

\* lines 881-889: score_sum and applied_weight over the dimensions with a score
RECURSIVE WeightedSums(_, _, _)
WeightedSums(gpt_record, dimensions, weights) ==
    IF dimensions = <<>> THEN [score_sum |-> Num(0), applied_weight |-> Num(0)]
    ELSE LET rest == WeightedSums(gpt_record, Tail(dimensions), weights)
             value == GetDimensionScore(gpt_record, Head(dimensions))
             weight == IF Head(dimensions) \in DOMAIN weights
                       THEN weights[Head(dimensions)] ELSE Num(0)
         IN  IF value = NoneV THEN rest
             ELSE [score_sum |-> Add(Mul(value, weight), rest.score_sum),
                   applied_weight |-> Add(weight, rest.applied_weight)]

\* compute_gpt_overall(gpt_data, selected_dims, dim_weights)
ComputeGptOverall(gpt_record, dimensions, weights) ==
    IF ~IsDict(gpt_record) THEN Num(0)
    ELSE LET sums == WeightedSums(gpt_record, dimensions, weights)
             fallback == Get(gpt_record.d, "overall")
         IN  IF ~Leq(sums.applied_weight, Num(0))
             THEN Div(sums.score_sum, sums.applied_weight)
             ELSE IF FloatOk(fallback) THEN FloatOf(fallback)
             ELSE Num(0)

\* configured weights: a number of steps of 0.05, a negative number, or no entry
WeightSettings ==
    { [dim \in Dimensions \ absent |-> w[dim]] :
        w \in [Dimensions -> {Num(0), Num(5), Num(15), Num(-5)}],
        absent \in {{}, {"relevance"}, {"relevance", "completeness"}} }

\* selections: all four, two, one, and none (which falls back to all four)
Selections ==
    {GPT_DIMENSION_KEYS, <<"relevance", "completeness">>, <<"completeness">>, <<>>}

DimensionSettings ==
    {[selected |-> sel, weights |-> w] : sel \in Selections, w \in WeightSettings}

\* judge records: complete, without a relevance score, without any score
OverallRecords ==
    { CleanJudgeA, FlatJudge,
      Dict([completeness |-> Num(80), accuracy |-> Num(60), overall |-> Num(20)]),
      Dict([overall |-> Str("88")]),
      Dict([overall |-> Str("abc")]),
      EmptyJudge, Num(42) }

\* lines 61-69: the settings of a new session
DefaultDimensionSettings ==
    [selected |-> GPT_DIMENSION_KEYS, weights |-> [dim \in Dimensions |-> Num(5)]]

NotComputed == [done |-> FALSE]

\* the evaluator of a dashboard run with the default sidebar settings
DefaultEvaluator ==
    [by |-> "dashboard"] @@
    NewEvaluator(TRUE, FALSE, FALSE, SidebarWeights(TRUE, TRUE, 3, 3), TRUE, TRUE, FALSE)

IdleOverall ==
    dimension_settings = DefaultDimensionSettings /\ overall_result = NotComputed

InitOverall ==
    /\ dimension_settings \in DimensionSettings
    /\ overall_result = NotComputed
    /\ evaluator = DefaultEvaluator
    /\ layer_result = NotEvaluated

\* lines 1560-1575: selected_gpt_dims = get_selected_gpt_dimensions();
\* selected_gpt_weights = get_gpt_dimension_weights(selected_gpt_dims);
\* compute_gpt_overall(gpt_data, selected_gpt_dims, selected_gpt_weights)
RecomputeOverall(gpt_record) ==
    /\ ~overall_result.done
    /\ LET dimensions == GetSelectedGptDimensions(dimension_settings)
           weights == GetGptDimensionWeights(dimension_settings.weights, dimensions)
       IN  overall_result' =
               [done |-> TRUE, gpt_data |-> gpt_record, dimensions |-> dimensions,
                weights |-> weights,
                value |-> ComputeGptOverall(gpt_record, dimensions, weights)]
    /\ UNCHANGED dimension_settings
    /\ UNCHANGED <<dashboardVars, validateVars, layerVars, coverageVars, faithVars, semanticVars>>

(***************************************************************************)
(* Keyword coverage (calculate_keyword_coverage, _is_similar_term).        *)
(*   A text is a sequence of characters.  The Chinese characters of the    *)
(*   synonym table are written in pinyin, one token per character; Latin   *)
(*   letters keep their case.                                              *)
(***************************************************************************)
\* str.lower() of one character and of a text
LowerChar(ch) ==
    CASE ch = "P" -> "p"
      [] ch = "E" -> "e"
      [] OTHER -> ch
Lower(text) == [i \in 1..Len(text) |-> LowerChar(text[i])]

\* sub in text
Contains(text, sub) ==
    \E i \in 0..(Len(text) - Len(sub)) : SubSeq(text, i + 1, i + Len(sub)) = sub

\* _is_similar_term, lines 277-282: the synonyms dict, in its order
synonyms ==
    << [key |-> <<"bao", "shang">>,
        similar_terms |-> << <<"cheng", "bao", "shang">>, <<"chang", "shang">>,
                             <<"cheng", "lan", "shang">> >>],
       [key |-> <<"fu", "ze", "ren">>,
        similar_terms |-> << <<"zhu", "guan">>, <<"guan", "li", "ren">>,
                             <<"lian", "luo", "ren">> >>],
       [key |-> <<"gong", "an">>,
        similar_terms |-> << <<"an", "quan">>, <<"zhi", "an">>,
                             <<"gong", "ye", "an", "quan">> >>],
       [key |-> <<"xu", "ke", "zheng">>,
        similar_terms |-> << <<"xu", "ke">>, <<"zheng", "ming">>, <<"he", "zhun">> >>] >>

\* _is_similar_term(keyword, answer)
IsSimilarTerm(keyword, answer) ==
    \E i \in 1..Len(synonyms) :
        /\ Contains(keyword, synonyms[i].key)
        /\ \E j \in 1..Len(synonyms[i].similar_terms) :
              Contains(Lower(answer), synonyms[i].similar_terms[j])

\* lines 255-259: the keyword is found in the answer, verbatim without regard
\* to case, or through a similar term
KeywordMatchesVerbatimOnly(keyword, answer) == Contains(Lower(answer), Lower(keyword))

KeywordMatches(keyword, answer) ==
    \/ Contains(Lower(answer), Lower(keyword))
    \/ IsSimilarTerm(keyword, answer)

\* the members of keywords for which keep holds of (keyword in kept) = wanted
RECURSIVE SelectKeywords(_, _, _)
SelectKeywords(keywords, kept, wanted) ==
    IF keywords = <<>> THEN <<>>
    ELSE (IF (Head(keywords) \in kept) = wanted THEN <<Head(keywords)>> ELSE <<>>)
         \o SelectKeywords(Tail(keywords), kept, wanted)

\* the score with the division by the number of keywords left out
CoverageScorePerMatch(matched_keywords, keywords) ==
    Num(100 * Len(matched_keywords))

\* lines 262 and 273: coverage_rate * 100
CoverageScore(matched_keywords, keywords) ==
    Mul(Rat(Len(matched_keywords), Len(keywords)), Num(100))

\* pd.isna(answer)
IsNa(answer) == answer = NoneV \/ answer = NaNV

\* lines 249-250: the early return for a missing answer or no keywords
EarlyReturn(answer, keywords) ==
    [score |-> Num(0), matched |-> <<>>,
     details |-> [total |-> 0, matched |-> 0, missing |-> keywords]]

\* calculate_keyword_coverage(answer, keywords): (score, matched, details)
CalculateKeywordCoverage(answer, keywords) ==
    IF IsNa(answer) \/ keywords = <<>> THEN EarlyReturn(answer, keywords)
    ELSE LET found == {keywords[i] : i \in {j \in 1..Len(keywords) :
                                              KeywordMatches(keywords[j], answer.s)}}
             matched_keywords == SelectKeywords(keywords, found, TRUE)
             missing_keywords == SelectKeywords(keywords, Range(matched_keywords), FALSE)
             coverage_rate == Rat(Len(matched_keywords), Len(keywords))
         IN  [score |-> CoverageScore(matched_keywords, keywords),
              matched |-> matched_keywords,
              details |-> [total_keywords |-> Len(keywords),
                           matched_keywords |-> Len(matched_keywords),
                           missing_keywords |-> Len(missing_keywords),
                           missing_list |-> missing_keywords,
                           found_list |-> matched_keywords,
                           matched_ratio |-> coverage_rate]]

\* RAGEvaluatorTwoModels.calculate_coverage_score(answer, keywords): the same
\* loop, returning (score, matched)
CalculateCoverageScore(answer, keywords) ==
    LET r == CalculateKeywordCoverage(answer, keywords)
    IN  [score |-> r.score, matched |-> r.matched]

\* keywords as extract_keywords returns them: distinct terms
KeywordTerms ==
    { <<"cheng", "bao", "shang">>,      \* holds the key "bao shang"
      <<"xu", "ke", "zheng">>,          \* is a key itself
      <<"P", "P", "E">>,
      <<"dian", "han">> }

MaxKeywords == 2    \* keywords of one reference

KeywordLists ==
    {k \in SeqsUpTo(KeywordTerms, MaxKeywords) :
        \A i, j \in 1..Len(k) : i # j => k[i] # k[j]}

\* the pieces answers are made of
AnswerPieces ==
    { <<"chang", "shang">>,             \* similar to "bao shang"
      <<"bao", "shang">>,
      <<"xu", "ke">>,                   \* similar to "xu ke zheng"
      <<"p", "p", "e">>,
      <<"P", "P", "E">>,
      <<"dian", "han">>,
      <<"dian">> }

MaxPieces == 2      \* pieces of one answer

\* answers: missing (None, NaN), or a str of no or a few pieces
Answers ==
    {NoneV, NaNV}
    \cup {Str(Concat(pieces)) : pieces \in SeqsUpTo(AnswerPieces, MaxPieces)}

NoCoverageCall == [answer |-> NoneV, keywords |-> <<>>]
NotCovered == [done |-> FALSE]

IdleCoverage == coverage_call = NoCoverageCall /\ coverage_result = NotCovered

InitCoverage ==
    /\ coverage_call \in [answer : Answers, keywords : KeywordLists]
    /\ coverage_result = NotCovered

\* keyword_score, matched, keyword_details =
\*     self.calculate_keyword_coverage(answer, keywords)
CalculateCoverage ==
    /\ ~coverage_result.done
    /\ coverage_result' =
           [done |-> TRUE, by |-> "v2"] @@
           CalculateKeywordCoverage(coverage_call.answer, coverage_call.keywords)
    /\ UNCHANGED coverage_call
    /\ UNCHANGED <<dashboardVars, validateVars, layerVars, overallVars, faithVars, semanticVars>>

\* score, matched = self.calculate_coverage_score(answer, keywords)
CalculateCoverageV1 ==
    /\ ~coverage_result.done
    /\ coverage_result' =
           [done |-> TRUE, by |-> "v1"] @@
           CalculateCoverageScore(coverage_call.answer, coverage_call.keywords)
    /\ UNCHANGED coverage_call
    /\ UNCHANGED <<dashboardVars, validateVars, layerVars, overallVars, faithVars, semanticVars>>

(***************************************************************************)
(* Faithfulness (evaluate_faithfulness of the two-models and of the        *)
(*   single-model evaluator).  A text is a sequence of characters: digits, *)
(*   "-", "/", " ", and Chinese characters in pinyin, which are word       *)
(*   characters to the regular expressions.                                *)
(***************************************************************************)
Digits == {"0", "1", "2", "3", "4", "5", "6", "7", "8", "9"}
DateSeparators == {"-", "/"}

\* \d and \w at a place of the text; a place past the end matches nothing
DigitAt(text, i) == i >= 1 /\ i <= Len(text) /\ text[i] \in Digits
WordCharAt(text, i) ==
    i >= 1 /\ i <= Len(text) /\ text[i] \notin (DateSeparators \cup {" "})
SeparatorAt(text, i) == i >= 1 /\ i <= Len(text) /\ text[i] \in DateSeparators

\* the last place of the run of word characters that starts at i
WordEnd(text, i) ==
    CHOOSE j \in i..Len(text) :
        /\ \A k \in i..j : WordCharAt(text, k)
        /\ ~WordCharAt(text, j + 1)

\* re.findall(r'\b\d+\b', text) from place i on: \b holds only where a word
\* starts or ends, so the matches are the words made of digits alone
RECURSIVE FindNumbers(_, _)
FindNumbers(text, i) ==
    IF i > Len(text) THEN <<>>
    ELSE IF ~WordCharAt(text, i) THEN FindNumbers(text, i + 1)
    ELSE LET j == WordEnd(text, i)
         IN  (IF \A k \in i..j : DigitAt(text, k)
              THEN <<SubSeq(text, i, j)>> ELSE <<>>)
             \o FindNumbers(text, j + 1)

\* a final \d{1,2} at place p, greedy: the place it ends at, or 0
DayEnd(text, p) ==
    IF DigitAt(text, p) /\ DigitAt(text, p + 1) THEN p + 1
    ELSE IF DigitAt(text, p) THEN p
    ELSE 0

\* \d{1,2}[-/]\d{1,2} at place p: two digits first, one digit on backtracking
MonthDayEnd(text, p) ==
    IF /\ DigitAt(text, p) /\ DigitAt(text, p + 1) /\ SeparatorAt(text, p + 2)
       /\ DayEnd(text, p + 3) # 0
    THEN DayEnd(text, p + 3)
    ELSE IF DigitAt(text, p) /\ SeparatorAt(text, p + 1) /\ DayEnd(text, p + 2) # 0
    THEN DayEnd(text, p + 2)
    ELSE 0

\* \d{4}[-/]\d{1,2}[-/]\d{1,2} | \d{1,2}[-/]\d{1,2} at place i: the first
\* alternative that matches
DateEnd(text, i) ==
    IF /\ \A k \in i..(i + 3) : DigitAt(text, k)
       /\ SeparatorAt(text, i + 4)
       /\ MonthDayEnd(text, i + 5) # 0
    THEN MonthDayEnd(text, i + 5)
    ELSE MonthDayEnd(text, i)

\* re.findall of the date pattern from place i on: leftmost matches, none
\* overlapping
RECURSIVE FindDates(_, _)
FindDates(text, i) ==
    IF i > Len(text) THEN <<>>
    ELSE LET j == DateEnd(text, i)
         IN  IF j # 0 THEN <<SubSeq(text, i, j)>> \o FindDates(text, j + 1)
             ELSE FindDates(text, i + 1)

\* [x for x in found if x not in in_ref]
RECURSIVE NotIn(_, _)
NotIn(found, in_ref) ==
    IF found = <<>> THEN <<>>
    ELSE (IF Head(found) \in Range(in_ref) THEN <<>> ELSE <<Head(found)>>)
         \o NotIn(Tail(found), in_ref)

\* the explanation_words list
explanation_words ==
    << <<"yin", "ci">>, <<"suo", "yi">>, <<"bao", "kuo">>, <<"li", "ru">>,
       <<"ru">>, <<"ji">>, <<"ye", "jiu", "shi">>, <<"yong", "yu">>, <<"mu", "di">> >>

\* sum(1 for word in explanation_words if word in answer), counting every
\* occurrence of a word instead
ExplanationCountPerOccurrence(answer) ==
    Cardinality({x \in (1..Len(explanation_words)) \X (1..Len(answer)) :
        /\ x[2] + Len(explanation_words[x[1]]) - 1 <= Len(answer)
        /\ SubSeq(answer, x[2], x[2] + Len(explanation_words[x[1]]) - 1)
               = explanation_words[x[1]]})

\* sum(1 for word in explanation_words if word in answer)
ExplanationCount(answer) ==
    Cardinality({w \in 1..Len(explanation_words) :
        Contains(answer, explanation_words[w])})

\* the analysis of an answer against the reference keywords
FaithfulnessAnalysis(answer, reference_keywords) ==
    LET reference_text == Join(reference_keywords, <<" ">>)
    IN  [extra_numbers |-> NotIn(FindNumbers(answer, 1), FindNumbers(reference_text, 1)),
         extra_dates |-> NotIn(FindDates(answer, 1), FindDates(reference_text, 1))]

\* the decision: (faithfulness_score, desc), the descriptions in English
FaithfulnessDecision(analysis, explanation_count) ==
    IF Len(analysis.extra_numbers) > 2 \/ Len(analysis.extra_dates) > 1
    THEN [score |-> 50, desc |-> "moderately faithful"]
    ELSE IF Len(analysis.extra_numbers) > 0 \/ Len(analysis.extra_dates) > 0
    THEN [score |-> 75, desc |-> "highly faithful"]
    ELSE IF explanation_count > 3
    THEN [score |-> 90, desc |-> "very highly faithful"]
    ELSE [score |-> 100, desc |-> "fully faithful"]

\* RAGEvaluatorTwoModels.evaluate_faithfulness(answer, reference_keywords):
\* (score, desc, analysis)
EvaluateFaithfulnessOf(answer, reference_keywords) ==
    IF IsNa(answer)
    THEN [score |-> 100, desc |-> "no answer", analysis |-> [x \in {} |-> x]]
    ELSE LET analysis == FaithfulnessAnalysis(answer.s, reference_keywords)
         IN  FaithfulnessDecision(analysis, ExplanationCount(answer.s))
             @@ [analysis |-> analysis]

\* RAGEvaluatorSingleModel.evaluate_faithfulness(answer, keywords): the same
\* algorithm, returning (score, desc)
EvaluateFaithfulnessSingleOf(answer, keywords) ==
    LET r == EvaluateFaithfulnessOf(answer, keywords)
    IN  [score |-> r.score, desc |-> r.desc]

\* the pieces answers are made of
FaithPieces ==
    { <<"3", " ">>,                     \* a number, when a word starts it
      <<"3", "/", "1", "5", " ">>,      \* a date, and the numbers 3 and 15
      <<"yin", "ci">>,
      <<"suo", "yi">>,
      <<"li", "ru">> }                  \* holds "ru" as well

MaxParts == 4       \* pieces of one answer

FaithAnswers ==
    {NoneV, NaNV}
    \cup {Str(Concat(pieces)) : pieces \in SeqsUpTo(FaithPieces, MaxParts)}

\* reference keywords: none, the numbers of the date, the date itself
ReferenceKeywords ==
    { <<>>,
      << <<"3">>, <<"1", "5">> >>,
      << <<"3", "/", "1", "5">> >> }

NoFaithCall == [answer |-> NoneV, keywords |-> <<>>]
NotJudged == [done |-> FALSE]

IdleFaithfulness == faith_call = NoFaithCall /\ faith_result = NotJudged

InitFaithfulness ==
    /\ faith_call \in [answer : FaithAnswers, keywords : ReferenceKeywords]
    /\ faith_result = NotJudged

\* faithfulness_score, faithfulness_desc, faithfulness_analysis =
\*     self.evaluate_faithfulness(answer, keywords)
EvaluateFaithfulness ==
    /\ ~faith_result.done
    /\ faith_result' =
           [done |-> TRUE, by |-> "two_models"] @@
           EvaluateFaithfulnessOf(faith_call.answer, faith_call.keywords)
    /\ UNCHANGED faith_call
    /\ UNCHANGED <<dashboardVars, validateVars, layerVars, overallVars, coverageVars, semanticVars>>

\* faithfulness_score, faithfulness_desc = self.evaluate_faithfulness(answer, keywords)
EvaluateFaithfulnessSingle ==
    /\ ~faith_result.done
    /\ faith_result' =
           [done |-> TRUE, by |-> "single_model"] @@
           EvaluateFaithfulnessSingleOf(faith_call.answer, faith_call.keywords)
    /\ UNCHANGED faith_call
    /\ UNCHANGED <<dashboardVars, validateVars, layerVars, overallVars, coverageVars, semanticVars>>

(***************************************************************************)
(* Semantic similarity (calculate_semantic_similarity).  The embedding     *)
(*   model is outside the program: an encode call raises or returns, and   *)
(*   the cosine of two embeddings is any value the model can give.         *)
(***************************************************************************)
\* float(similarity) * 100 for the embeddings returned: a cosine, up to the
\* rounding of the division, or nan for an embedding of norm zero
SimilarityValues == {Num(-20), Num(0), Num(45), Num(100), Num(101), NaNV}

\* max(0, min(100, x)): min and max keep their first argument against nan
ClampScore(x) ==
    IF x = NaNV THEN Num(100)
    ELSE IF x.n > 100 THEN Num(100)
    ELSE IF x.n < 0 THEN Num(0)
    ELSE x

\* what the embedding model does in one call of the scorer
EncodeOutcomes ==
    {[reference |-> "raises"], [reference |-> "returns", answer |-> "raises"]}
    \cup {[reference |-> "returns", answer |-> "returns", similarity |-> x] :
            x \in SimilarityValues}

\* calculate_semantic_similarity(reference_text, answer) of an evaluator with
\* the given enable_semantic: (score, details), with the texts handed to encode
CalculateSemanticSimilarity(enable_semantic, reference_text, answer, outcome) ==
    IF ~enable_semantic
    THEN [score |-> Num(0), details |-> [error |-> "not enabled"], encoded |-> <<>>]
    ELSE IF IsNa(answer) \/ IsNa(reference_text)
    THEN [score |-> Num(0), details |-> [error |-> "blank"], encoded |-> <<>>]
    ELSE IF outcome.reference = "raises"
    THEN [score |-> Num(0), details |-> [error |-> "exception"],
          encoded |-> <<reference_text>>]
    ELSE IF outcome.answer = "raises"
    THEN [score |-> Num(0), details |-> [error |-> "exception"],
          encoded |-> <<reference_text, answer>>]
    ELSE [score |-> ClampScore(outcome.similarity),
          details |-> [raw_similarity |-> outcome.similarity,
                       normalized_score |-> ClampScore(outcome.similarity),
                       reference_length |-> Len(reference_text.s),
                       answer_length |-> Len(answer.s)],
          encoded |-> <<reference_text, answer>>]

\* the texts handed in: missing, empty, or some characters
SemanticTexts ==
    {NoneV, NaNV, Str(<<>>), Str(<<"dian", "han">>), Str(<<"xu", "ke", "zheng">>)}

NoSemanticCall == [enable_semantic |-> FALSE, reference_text |-> NoneV, answer |-> NoneV]
NotCompared == [done |-> FALSE]

IdleSemantic == semantic_call = NoSemanticCall /\ semantic_result = NotCompared

InitSemantic ==
    /\ semantic_call \in [enable_semantic : BOOLEAN, reference_text : SemanticTexts,
                          answer : SemanticTexts]
    /\ semantic_result = NotCompared

\* score, details = evaluator.calculate_semantic_similarity(reference_text, answer)
SemanticSimilarity(outcome) ==
    /\ ~semantic_result.done
    /\ semantic_result' =
           [done |-> TRUE] @@
           CalculateSemanticSimilarity(semantic_call.enable_semantic,
                                       semantic_call.reference_text,
                                       semantic_call.answer, outcome)
    /\ UNCHANGED semantic_call
    /\ UNCHANGED <<dashboardVars, validateVars, layerVars, overallVars, coverageVars, faithVars>>

IdleScoring ==
    /\ IdleValidate /\ IdleLayers /\ IdleOverall /\ IdleCoverage /\ IdleFaithfulness
    /\ IdleSemantic

\* The record a save_evaluation call builds now; datetime.now() differs from
\* one call to the next.
NewRecords ==
    {EvaluationRecord(now, x[1], x[2], x[3], x[4], NoGptRaw) : x \in SaveInputs}

InitLedger ==
    /\ history_file = [exists |-> FALSE, valid |-> FALSE, evaluations |-> <<>>]
    /\ history_data = [m \in Managers |-> <<>>]
    /\ opened = {}
    /\ now = 0
    /\ ret = NoRet

IdlePure ==
    IdleNorm /\ IdleView /\ IdleField /\ IdleParse /\ IdleReview /\ IdleScoring

Init == InitLedger /\ IdlePure

SaveStep == \E m \in Managers, rec \in NewRecords : SaveEvaluation(m, rec)
SaveOpenFailsStep == \E m \in Managers, rec \in NewRecords : SaveEvaluationOpenFails(m, rec)
SaveDumpFailsStep == \E m \in Managers, rec \in NewRecords : SaveEvaluationDumpFails(m, rec)
ClearStep == \E m \in Managers : ClearHistory(m)

Next ==
    \/ \E m \in Managers : NewManager(m)
    \/ SaveStep
    \/ SaveOpenFailsStep
    \/ SaveDumpFailsStep
    \/ \E m \in Managers : Query(m)
    \/ \E m \in Managers : GetStatistics(m)
    \/ ClearStep

Spec == Init /\ [][Next]_vars

\* Two sessions on one history file, every write succeeding.
NextSessions ==
    \/ \E m \in Managers : NewManager(m)
    \/ SaveStep

SpecSessions == Init /\ [][NextSessions]_vars

\* the bounds callers pass: timestamps of records, and dates without a time
StartDates == {IsoFormat(0), IsoDate(1), IsoDate(2)}
EndDates == {IsoFormat(1), IsoDate(2), IsoFormat(2)}

\* one session that saves and queries its ledger
NextQueries ==
    \/ NewManager(SessionManager)
    \/ \E rec \in NewRecords : SaveEvaluation(SessionManager, rec)
    \/ \E name \in Files \cup {"c.xlsx"} : GetEvaluationsByFile(SessionManager, name)
    \/ \E start \in StartDates, end \in EndDates :
          GetEvaluationsByDate(SessionManager, start, end)

SpecQueries == Init /\ [][NextQueries]_vars

\* normalize_gpt_schema applied to every parsed mapping, and again to its result
NextNorm == Normalize

StartNorm ==
    /\ InitLedger /\ InitNorm /\ IdleView /\ IdleField /\ IdleParse /\ IdleReview
    /\ IdleScoring

SpecNorm == StartNorm /\ [][NextNorm]_vars

\* prepare_version_view applied to every judge record and table content
NextView == PrepareView

StartView ==
    /\ InitLedger /\ IdleNorm /\ InitView /\ IdleField /\ IdleParse /\ IdleReview
    /\ IdleScoring

SpecView == StartView /\ [][NextView]_vars

\* a list field written to the judge table and read back
NextField ==
    \/ SerializeField
    \/ StoreField
    \/ ParseField

StartField ==
    /\ InitLedger /\ IdleNorm /\ IdleView /\ InitField /\ IdleParse /\ IdleReview
    /\ IdleScoring

SpecField == StartField /\ [][NextField]_vars

\* both parsers applied to every response text
NextParse ==
    \/ ParseResponse
    \/ HelperParseResponse

StartParse ==
    /\ InitLedger /\ IdleNorm /\ IdleView /\ IdleField /\ InitParse /\ IdleReview
    /\ IdleScoring

SpecParse == StartParse /\ [][NextParse]_vars

\* the clicks of the user in one session
NextReview ==
    \/ \E version \in Versions, question_selector \in 1..Len(ResultsDf),
          text \in PastedTexts, outcome \in {"written", "open_fails"} :
          ClickSave(version, question_selector, text, outcome)
    \/ ClickNested("force_save")
    \/ ClickNested("recheck")
    \/ ClickClearAllGpt

StartReview ==
    InitReview /\ IdleNorm /\ IdleView /\ IdleField /\ IdleParse /\ IdleScoring

SpecReview == StartReview /\ [][NextReview]_vars

\* a session whose user also saves all questions at once
NextSaveAll ==
    \/ NextReview
    \/ \E outcome \in {"written", "open_fails"} : ClickManualSaveAll(outcome)

SpecSaveAll == StartReview /\ [][NextSaveAll]_vars

\* scores[version]["gpt_overall"] of a stored record: compute_gpt_overall of
\* the judge response under the session's default dimension settings, 0 for a
\* version without a response (auto_save_evaluation, lines 1110 and 1124)
StoredGptOverall(record, version) ==
    IF record.gpt_raw[version] = Dict(EmptyDict) THEN Num(0)
    ELSE LET selected_dims == GetSelectedGptDimensions(DefaultDimensionSettings)
         IN  ComputeGptOverall(record.gpt_raw[version], selected_dims,
                 GetGptDimensionWeights(DefaultDimensionSettings.weights, selected_dims))

\* load_gpt_from_history, the loop body for one version: a record whose
\* gpt_overall is above 0 puts its raw response in the session; the scores
\* dict is used instead when the record has no raw response
RestoreVersion(responses, record, version) ==
    IF Leq(StoredGptOverall(record, version), Num(0)) THEN responses
    ELSE IF IsDict(record.gpt_raw[version]) /\ Truthy(record.gpt_raw[version])
    THEN [responses EXCEPT
             ![version] = Put(@, record.question_id, record.gpt_raw[version])]
    ELSE [responses EXCEPT
             ![version] = Put(@, record.question_id,
                              Dict([overall |-> StoredGptOverall(record, version)]))]

\* load_gpt_from_history: the records of the file, in the order of the list
RECURSIVE RestoreAll(_, _)
RestoreAll(responses, evaluations) ==
    IF evaluations = <<>> THEN responses
    ELSE RestoreAll(RestoreVersion(RestoreVersion(responses, Head(evaluations), "original"),
                                   Head(evaluations), "optimized"),
                    Tail(evaluations))

LoadGptFromHistory(excel_filename, responses) ==
    RestoreAll(responses, GetEvaluationsByFileOf(SessionManager, excel_filename)')

\* the first script run of a new session on the same store and file: the
\* session state is initialised, the history manager loads the history file,
\* and the judge responses are restored from it (lines 47-58, 1523-1528)
StartSession ==
    /\ history_file.exists
    /\ history_data' = [history_data EXCEPT ![SessionManager] = LoadHistory(history_file)]
    /\ gpt_responses' =
           LoadGptFromHistory(CurrentExcelFilename, [v \in Versions |-> EmptyDict])
    /\ pending' = NoPending
    /\ clicked' = [NoClick EXCEPT !.button = "new_session"]
    /\ ret' = [op |-> "init", mgr |-> SessionManager, ok |-> TRUE]
    /\ UNCHANGED <<history_file, opened, now, judge_table, session_state>>
    /\ UNCHANGED <<normVars, viewVars, fieldVars, parseVars, scoringVars>>

\* sessions that follow one another on one store
NextRestore ==
    \/ NextReview
    \/ StartSession

SpecRestore == StartReview /\ [][NextRestore]_vars

\* load_llm_judge_table: the rows of the judge table file
LoadLlmJudgeTable == judge_table

\* a click on "clear history" in the sidebar: clear_history of the session's
\* manager, the write succeeding
ClickClearHistory == ClearHistory(SessionManager)

\* the session with the ledger controls of the sidebar
NextStore ==
    \/ NextReview
    \/ ClickClearHistory

SpecStore == StartReview /\ [][NextStore]_vars

\* one script run with a file selected (lines 1474-1528): the file name is
\* taken over; evaluate_all runs only when the session holds no results yet;
\* the judge responses are restored from the history only when the session
\* has not restored them before
RunScript(uploaded_file) ==
    /\ session_state' =
          [current_excel_filename |-> uploaded_file,
           comparison_results |->
               IF session_state.comparison_results = NoneV
               THEN EvaluateAll[uploaded_file]
               ELSE session_state.comparison_results,
           gpt_responses_loaded |-> TRUE]
    /\ UNCHANGED <<judge_table, ledgerVars>>
    /\ gpt_responses' =
          IF ~session_state.gpt_responses_loaded
          THEN LoadGptFromHistory(uploaded_file, gpt_responses)
          ELSE gpt_responses
    /\ clicked' = [NoClick EXCEPT !.button = "select_file"]
    /\ pending' = NoPending
    /\ UNCHANGED <<normVars, viewVars, fieldVars, parseVars, scoringVars>>

\* a click on the save button of a version in a session that has selected a
\* file: the question is a row of the results the session holds, the record
\* is saved under the file name the session holds
SessionClickSave(version, question_selector, text, outcome) ==
    LET results_df == session_state.comparison_results.rows
        actual_question_id == results_df[question_selector].seq_no
        after == AutoSaveTurn(SessionLedger, actual_question_id, gpt_responses',
                              outcome)
    IN  /\ clicked' = [button |-> "save", version |-> version,
                       question_id |-> actual_question_id, text |-> text]
        /\ UNCHANGED session_state
        /\ CASE PastedOutcome[text] = "store" ->
                  /\ now < MaxStores
                  /\ gpt_responses' =
                        [gpt_responses EXCEPT
                            ![version] = Put(@, actual_question_id, PastedParsed[text])]
                  /\ history_data' = [history_data EXCEPT
                                         ![SessionManager] = after.history_data]
                  /\ history_file' = after.history_file
                  /\ now' = after.now
                  /\ judge_table' = after.judge_table
                  /\ ret' = [op |-> "save", mgr |-> SessionManager,
                             ok |-> (outcome = "written")]
                  /\ pending' = NoPending
                  /\ UNCHANGED opened
             [] PastedOutcome[text] = "warnings" ->
                  /\ outcome = "written"
                  /\ pending' = [version |-> version,
                                 question_id |-> actual_question_id,
                                 parsed |-> PastedParsed[text]]
                  /\ UNCHANGED <<gpt_responses, judge_table, ledgerVars>>
             [] OTHER ->
                  /\ outcome = "written"
                  /\ pending' = NoPending
                  /\ UNCHANGED <<gpt_responses, judge_table, ledgerVars>>
        /\ UNCHANGED <<normVars, viewVars, fieldVars, parseVars, scoringVars>>

\* a new session: no file selected yet, nothing evaluated, nothing restored
InitFiles ==
    /\ history_file = [exists |-> FALSE, valid |-> FALSE, evaluations |-> <<>>]
    /\ history_data = [m \in Managers |-> <<>>]
    /\ opened = {SessionManager}
    /\ now = 0
    /\ ret = NoRet
    /\ gpt_responses = [v \in Versions |-> EmptyDict]
    /\ judge_table = <<>>
    /\ pending = NoPending
    /\ clicked = NoClick
    /\ session_state = NewSessionState

StartFiles ==
    InitFiles /\ IdleNorm /\ IdleView /\ IdleField /\ IdleParse /\ IdleScoring

\* the texts pasted in such a session: two complete responses, one with
\* warnings only, no text
SessionTexts ==
    { Text(FALSE, FALSE, "json", payload) :
        payload \in {CleanJudgeA, CleanJudgeB, FlatJudge} }
    \cup { BlankText }

\* a session whose user selects files and saves judge responses
NextFiles ==
    \/ \E uploaded_file \in Files : RunScript(uploaded_file)
    \/ \E version \in Versions, text \in SessionTexts,
          outcome \in {"written", "open_fails"} :
          /\ session_state.comparison_results # NoneV
          /\ \E question_selector \in 1..Len(session_state.comparison_results.rows) :
                SessionClickSave(version, question_selector, text, outcome)
    \/ ClickNested("force_save")
    \/ ClickNested("recheck")
    \/ ClickClearAllGpt

SpecFiles == StartFiles /\ [][NextFiles]_vars

\* validate_scoring_consistency applied to every parsed response
NextValidate == Validate

StartValidate ==
    /\ InitLedger /\ IdleNorm /\ IdleView /\ IdleField /\ IdleParse /\ IdleReview
    /\ InitValidate /\ IdleLayers /\ IdleOverall /\ IdleCoverage /\ IdleFaithfulness
    /\ IdleSemantic

SpecValidate == StartValidate /\ [][NextValidate]_vars

\* an evaluator built by a caller or by the dashboard, then one answer evaluated
NextLayers ==
    \/ \E enable_semantic \in BOOLEAN, enable_gpt \in BOOLEAN, has_key \in BOOLEAN,
          weights \in CallerWeights, semantic_available \in BOOLEAN,
          model_loads \in BOOLEAN, gpt_available \in BOOLEAN :
          ConstructEvaluator(enable_semantic, enable_gpt, has_key, weights,
                             semantic_available, model_loads, gpt_available)
    \/ \E enable_semantic \in BOOLEAN, enable_manual_gpt \in BOOLEAN,
          weight_keyword \in SliderStops, weight_semantic \in SliderStops,
          semantic_available \in BOOLEAN, model_loads \in BOOLEAN :
          SidebarEvaluator(enable_semantic, enable_manual_gpt, weight_keyword,
                           weight_semantic, semantic_available, model_loads)
    \/ \E keyword_score \in LayerScores, semantic_similarity \in LayerScores,
          gpt_overall \in LayerScores :
          EvaluateAnswer(keyword_score, semantic_similarity, gpt_overall)

StartLayers == InitLedger /\ IdlePure

SpecLayers == StartLayers /\ [][NextLayers]_vars

\* the judge overall recomputed for every record under every setting
NextOverall == \E gpt_record \in OverallRecords : RecomputeOverall(gpt_record)

StartOverall ==
    /\ InitLedger /\ IdleNorm /\ IdleView /\ IdleField /\ IdleParse /\ IdleReview
    /\ IdleValidate /\ InitOverall /\ IdleCoverage /\ IdleFaithfulness
    /\ IdleSemantic

SpecOverall == StartOverall /\ [][NextOverall]_vars

\* the coverage of every answer against every keyword list
NextCoverage ==
    \/ CalculateCoverage
    \/ CalculateCoverageV1

StartCoverage ==
    /\ InitLedger /\ IdleNorm /\ IdleView /\ IdleField /\ IdleParse /\ IdleReview
    /\ IdleValidate /\ IdleLayers /\ IdleOverall /\ InitCoverage /\ IdleFaithfulness
    /\ IdleSemantic

SpecCoverage == StartCoverage /\ [][NextCoverage]_vars

\* the faithfulness of every answer against every reference
NextFaithfulness ==
    \/ EvaluateFaithfulness
    \/ EvaluateFaithfulnessSingle

StartFaithfulness ==
    /\ InitLedger /\ IdleNorm /\ IdleView /\ IdleField /\ IdleParse /\ IdleReview
    /\ IdleValidate /\ IdleLayers /\ IdleOverall /\ IdleCoverage /\ InitFaithfulness
    /\ IdleSemantic

SpecFaithfulness == StartFaithfulness /\ [][NextFaithfulness]_vars

\* the semantic similarity of every pair of texts under every embedding outcome
NextSemantic == \E outcome \in EncodeOutcomes : SemanticSimilarity(outcome)

StartSemantic ==
    /\ InitLedger /\ IdleNorm /\ IdleView /\ IdleField /\ IdleParse /\ IdleReview
    /\ IdleValidate /\ IdleLayers /\ IdleOverall /\ IdleCoverage /\ IdleFaithfulness
    /\ InitSemantic

SpecSemantic == StartSemantic /\ [][NextSemantic]_vars

(***************************************************************************)
(* The evaluation ledger: claims                                           *)
(***************************************************************************)
IsPrefix(s, t) == Len(s) <= Len(t) /\ \A i \in 1..Len(s) : s[i] = t[i]

\* A save_evaluation call that returned False / True in this step.
FailedSave == now' = now + 1 /\ ret'.op = "save" /\ ~ret'.ok
SuccessfulSave == now' = now + 1 /\ ret'.op = "save" /\ ret'.ok

\* C1: when the write of save_evaluation fails, the call returns False and
\* the ledger is as before the call: the file is unchanged and the record is
\* not visible through get_all_evaluations / get_statistics of the manager.
C1_FailedSaveLeavesLedgerUnchanged ==
    [][FailedSave =>
          /\ history_file' = history_file
          /\ \A m \in Managers :
                /\ GetAllEvaluationsOf(m)' = GetAllEvaluationsOf(m)
                /\ GetStatisticsOf(m)' = GetStatisticsOf(m)]_vars

\* C1, the part the code keeps: a failed write is reported to the caller.
C1_FailedSaveReached ==
    ret.op = "save" /\ ~ret.ok /\ Len(history_data[ret.mgr]) > 0

\* C2: without clear_history the ledger of a manager is append-only: every
\* step keeps the records it held, unchanged and in order; a successful
\* save_evaluation adds exactly one record at the end (also for a question
\* that already has a record) and writes the whole list to the file; queries
\* and statistics change nothing.
C2_AppendOnly ==
    [][ret'.op # "clear" =>
          \A m \in opened :
             /\ IsPrefix(history_data[m], history_data'[m])
             /\ (SuccessfulSave /\ ret'.mgr = m) =>
                   /\ Len(history_data'[m]) = Len(history_data[m]) + 1
                   /\ history_data'[m][Len(history_data'[m])] \in NewRecords
                   /\ LoadHistory(history_file') = history_data'[m]
             /\ ret'.op \in {"query", "statistics"} =>
                   history_data'[m] = history_data[m]]_vars

\* C2 witness: a second record for a question that already had one was saved.
C2_SameQuestionSavedTwice ==
    /\ ret.op = "save" /\ ret.ok
    /\ \E i, j \in 1..Len(history_data[ret.mgr]) :
          /\ i < j
          /\ j = Len(history_data[ret.mgr])
          /\ history_data[ret.mgr][i].question_id = history_data[ret.mgr][j].question_id
          /\ history_data[ret.mgr][i] # history_data[ret.mgr][j]

\* C3: with two managers opened on the same history file, after any
\* interleaving of successful save_evaluation calls the store holds every
\* record either session appended.
C3_NoRecordLostAcrossSessions ==
    \A m \in opened :
       Range(history_data[m]) \subseteq Range(LoadHistory(history_file))

(***************************************************************************)
(* Judge schema normalisation: claims                                      *)
(***************************************************************************)
\* C7: schema normalisation is idempotent: a pass over an already normalised
\* mapping returns it unchanged.
C7_NormalizeIdempotent ==
    [][(passes >= 1 /\ passes' = passes + 1) => data' = data]_vars

\* C7 witness: a mapping with a nested block and a sibling reasoning field,
\* which the first pass changed, has been normalised twice.
C7_MixedMappingNormalizedTwice ==
    /\ passes = 2
    /\ IsDict(parsed)
    /\ data # parsed
    /\ IsDict(Get(parsed.d, "relevance"))
    /\ "relevance_reasoning" \in DOMAIN parsed.d
    /\ IsNumber(Get(parsed.d, "completeness"))

\* what the judge gave for a dimension is a bare number or a numeric string
GaveNumber(v, dim) == IsDict(v) /\ FloatOk(Get(v.d, dim))

\* C8 as claimed: after normalisation each of the four dimension blocks
\* contains a score.
C8_EveryBlockHasScore ==
    (passes >= 1 /\ IsDict(parsed)) =>
        \A dim \in Dimensions :
            /\ IsDict(Get(data.d, dim))
            /\ "score" \in DOMAIN data.d[dim].d

\* C8 as the code has it: after normalisation each of the four dimension keys
\* holds a block; the block has a score, the float of what was given, when
\* the judge gave a bare number or a numeric string, and a nested block is
\* kept with the score it has; nothing else yields a score.
C8_BlockHasScoreWhenGiven ==
    (passes >= 1 /\ IsDict(parsed)) =>
        \A dim \in Dimensions :
            LET given == Get(parsed.d, dim) IN
            /\ IsDict(Get(data.d, dim))
            /\ GaveNumber(parsed, dim) =>
                 /\ "score" \in DOMAIN data.d[dim].d
                 /\ data.d[dim].d["score"] = FloatOf(given)
                 /\ GetDimensionScore(data, dim) = FloatOf(given)
            /\ IsDict(given) =>
                 ("score" \in DOMAIN data.d[dim].d <=> "score" \in DOMAIN given.d)
            /\ (~GaveNumber(parsed, dim) /\ ~IsDict(given)) =>
                 /\ "score" \notin DOMAIN data.d[dim].d
                 /\ GetDimensionScore(data, dim) = NoneV

\* C8 witness: a numeric string and a bare number were given and normalised.
C8_NumericStringNormalized ==
    /\ passes >= 1
    /\ IsDict(parsed)
    /\ IsStr(Get(parsed.d, "relevance"))
    /\ GaveNumber(parsed, "relevance")
    /\ IsNumber(Get(parsed.d, "completeness"))

(***************************************************************************)
(* The overall score of a view: claims                                     *)
(***************************************************************************)
\* the judge record carries no overall score
NoOverall(record) == ~IsDict(record) \/ SafeFloat(Get(record.d, "overall")) = NoneV

\* the dimension blocks of the view that have a score
ScoredDimensions == {d \in DOMAIN view.dimensions : view.dimensions[d].score # NoneV}

\* the score of a dimension block of the judge record, None when it has none
RecordScore(record, dim) ==
    SafeFloat(Get(GetDimensionBlock(NormalizeGptSchema(record), dim), "score"))

C10_ListFieldRoundTrip ==
    stage = "view" => field_items = field_value.items

\* C10 witness: a list of two strings, one with a quote in it, was read back.
C10_QuotedListReadBack ==
    /\ stage = "view"
    /\ Len(field_value.items) = 2
    /\ \E i \in 1..2 : field_value.items[i] = <<QUOTE>>

(***************************************************************************)
(* The manual judge review: claims                                         *)
(***************************************************************************)
\* the session judge maps, the ledger and the judge table are as before
NothingStored ==
    /\ gpt_responses' = gpt_responses
    /\ history_data' = history_data
    /\ history_file' = history_file
    /\ judge_table' = judge_table

\* parse_gpt_response returned a record that is no error record and
\* validate_scoring_consistency found no error in it
Accepted(text) ==
    LET r == ParseGptResponse(text)
    IN  /\ r.kind = "return"
        /\ IsDict(r.value)
        /\ "error" \notin DOMAIN r.value.d
        /\ ValidateScoringConsistency(r.value).errors = <<>>

\* C4: a click on the save button stores the judge response in the judge map
\* of the version and appends to the ledger only if parse_gpt_response
\* returned a record that is no error record and validate_scoring_consistency
\* returned no error; otherwise the judge maps and the ledger are unchanged.
\* What is stored is the parsed record, under the clicked version and the
\* question number.
C4_SaveStoresOnlyValidated ==
    [][clicked'.button = "save" =>
          /\ ~Accepted(clicked'.text) => NothingStored
          /\ ~NothingStored =>
                /\ gpt_responses' =
                      [gpt_responses EXCEPT
                          ![clicked'.version] =
                              Put(@, clicked'.question_id,
                                  ParseGptResponse(clicked'.text).value)]
                /\ Len(history_data'[SessionManager])
                      = Len(history_data[SessionManager]) + 1]_vars

\* C4 witness: with a response stored and saved, a save click on a response
\* with a score out of range was rejected.
C4_InvalidResponseRejected ==
    /\ clicked.button = "save"
    /\ clicked.text.payload = OutOfRangeJudge
    /\ ~Accepted(clicked.text)
    /\ DOMAIN gpt_responses["original"] # {}
    /\ Len(history_data[SessionManager]) = 1

\* the validation of the text yields warnings and no error
WarningsOnly(text) ==
    /\ Accepted(text)
    /\ ValidateScoringConsistency(ParseGptResponse(text).value).warnings # <<>>

\* C5: a response with warnings and no error is persisted if and only if the
\* user overrides: the save click alone stores nothing, and the click on the
\* force-save button stores the record in the judge map of the version and
\* appends to the ledger.
C5_WarningsPersistOnForceSave ==
    [][/\ (clicked'.button = "save" /\ WarningsOnly(clicked'.text)) => NothingStored
       /\ clicked'.button = "force_save" =>
             /\ Get(gpt_responses'[pending.version], pending.question_id)
                   = pending.parsed
             /\ Len(history_data'[SessionManager])
                   = Len(history_data[SessionManager]) + 1]_vars

\* C5, what the code does: the force-save button was clicked for a response
\* with warnings only, and neither the session nor the ledger holds it.
C5_ForceSaveStoredNothing ==
    /\ clicked.button = "force_save"
    /\ WarningsOnly(clicked.text)
    /\ \A version \in Versions : gpt_responses[version] = EmptyDict
    /\ history_data[SessionManager] = <<>>

(***************************************************************************)
(* parse_gpt_response: claims                                              *)
(***************************************************************************)
\* a mapping whose four dimension keys hold blocks
IsNormalizedRecord(v) ==
    IsDict(v) /\ \A dim \in Dimensions : IsDict(Get(v.d, dim))

\* an error record that carries the text handed in
IsErrorRecordOf(v, text) ==
    /\ IsDict(v)
    /\ DOMAIN v.d = {"error", "raw_response"}
    /\ v.d["raw_response"] = [t |-> "text", text |-> text]

\* C6: for every text parse_gpt_response returns a schema-normalised judge
\* record or an error record that carries the raw text; it returns nothing
\* else (no bare number, no list) and does not raise.
C6_ParseReturnsRecordOrError ==
    parse_result.by # "none" =>
        /\ parse_result.kind = "return"
        /\ \/ IsNormalizedRecord(parse_result.value)
           \/ IsErrorRecordOf(parse_result.value, response_text)

\* C6, what the code keeps: text that is neither JSON nor a literal came back
\* as an error record with the raw text.
C6_ErrorRecordReturned ==
    /\ parse_result.by = "dashboard"
    /\ response_text.style = "broken"
    /\ response_text.padded
    /\ IsErrorRecordOf(parse_result.value, response_text)

(***************************************************************************)
(* Claims about validate_scoring_consistency                               *)
(***************************************************************************)
\* the supporting metrics of each dimension and the range of each metric
MetricsOf == [relevance |-> {"p"}, completeness |-> {"q", "k"},
              accuracy |-> {"r"}, faithfulness |-> {"g"}]
MetricFloor == [p |-> Num(0), q |-> Num(0), k |-> Frac(4, 5), r |-> Num(0), g |-> Num(0)]

MetricIn(record, dim, key) == Get(GetDimensionBlock(record, dim), key)
MetricInRange(v, key) == FloatOk(v) /\ Leq(MetricFloor[key], FloatOf(v)) /\ Leq(FloatOf(v), Num(1))

\* all four dimension scores are numbers in [0, 100]
ScoresInRange(record) ==
    /\ IsDict(record)
    /\ \A dim \in Dimensions :
          LET score == GetDimensionScore(record, dim)
          IN  score # NoneV /\ Leq(Num(0), score) /\ Leq(score, Num(100))

\* every supporting metric that is supplied is in its range
SuppliedMetricsInRange(record) ==
    \A dim \in Dimensions : \A key \in MetricsOf[dim] :
        LET v == MetricIn(record, dim, key)
        IN  v = NoneV \/ MetricInRange(v, key)

\* |mean of the four scores - overall|, as the pair <<numerator, denominator>>
MeanGap(record) ==
    LET scores == [dim \in Dimensions |-> GetDimensionScore(record, dim)]
        mean == Quotient(SumOf(scores, Dimensions), 4)
        diff == Sub(mean, FloatOf(Get(record.d, "overall")))
    IN  <<Abs(NumOf(diff)), DenOf(diff)>>

OverallIsNumber(record) == IsDict(record) /\ FloatOk(Get(record.d, "overall"))

\* overall is a number within 2 points of the mean of the four scores
OverallNearMean(record) ==
    /\ OverallIsNumber(record)
    /\ MeanGap(record)[1] <= 2 * MeanGap(record)[2]

\* the response carries every part the validator asks for: question_id, an
\* overall in [0, 100] with its reasoning, and for each dimension a reasoning,
\* both driver lists and each supporting metric
CompleteResponse(record) ==
    /\ "question_id" \in DOMAIN record.d
    /\ LET overall == FloatOf(Get(record.d, "overall"))
       IN  Leq(Num(0), overall) /\ Leq(overall, Num(100))
    /\ LET text == Get(record.d, "overall_reasoning")
       IN  IsStr(text) /\ Strip(text.s) # ""
    /\ \A dim \in Dimensions :
          LET block == GetDimensionBlock(record, dim)
              drivers == Get(block, "score_drivers")
          IN  /\ Truthy(Get(block, "reasoning"))
              /\ IsDict(drivers)
              /\ Truthy(Get(drivers.d, "positive"))
              /\ Truthy(Get(drivers.d, "negative"))
              /\ \A key \in MetricsOf[dim] : Get(block, key) # NoneV

NoMessages == validation.warnings = <<>> /\ validation.errors = <<>>

\* C11 as stated: a response with four scores in [0, 100], every supplied
\* metric in range and overall within 2 points of the mean of the scores is
\* validated with no error and no warning.  (Refuted: a flat response with
\* scores only is warned about its missing reasoning, drivers and metrics.)
C11_ConsistentRecordIsClean ==
    (/\ validation.done
     /\ ScoresInRange(judge_record)
     /\ SuppliedMetricsInRange(judge_record)
     /\ OverallNearMean(judge_record))
    => NoMessages

\* C11 amended: such a response is validated with no error and no warning
\* when it also carries every part the validator asks for.
C11_CompleteConsistentRecordIsClean ==
    (/\ validation.done
     /\ ScoresInRange(judge_record)
     /\ SuppliedMetricsInRange(judge_record)
     /\ OverallNearMean(judge_record)
     /\ CompleteResponse(judge_record))
    => NoMessages

\* a complete response whose overall is exactly 2 points below the mean of
\* its scores, and whose metric r is 1, has been validated
C11_CleanRecordValidated ==
    /\ validation.done
    /\ ScoresInRange(judge_record)
    /\ SuppliedMetricsInRange(judge_record)
    /\ OverallIsNumber(judge_record)
    /\ CompleteResponse(judge_record)
    /\ MeanGap(judge_record) = <<2, 1>>
    /\ MetricIn(judge_record, "accuracy", "r") = Num(1)
    /\ NoMessages

\* a dimension is missing entirely: the response has no value for it
DimensionMissing(record) ==
    \E dim \in Dimensions : Get(record.d, dim) = NoneV

\* a dimension has a score outside [0, 100]
ScoreOutOfRange(record) ==
    \E dim \in Dimensions :
        LET score == GetDimensionScore(record, dim)
        IN  score # NoneV /\ ~(Leq(Num(0), score) /\ Leq(score, Num(100)))

\* a supplied metric among keys is a number outside its range
MetricOutOfRange(record, keys) ==
    \E dim \in Dimensions : \E key \in MetricsOf[dim] \cap keys :
        LET v == MetricIn(record, dim, key)
        IN  v # NoneV /\ FloatOk(v) /\ ~MetricInRange(v, key)

\* C12 as stated: a missing dimension, a score outside [0, 100], a metric p, r
\* or g outside [0, 1] or a metric k outside [0.8, 1.0] each give at least one
\* hard error.  (Refuted: k outside its range gives a warning only.)
C12_HardErrorOnEveryViolation ==
    (/\ validation.done
     /\ IsDict(judge_record)
     /\ \/ DimensionMissing(judge_record)
        \/ ScoreOutOfRange(judge_record)
        \/ MetricOutOfRange(judge_record, {"p", "r", "g"})
        \/ MetricOutOfRange(judge_record, {"k"}))
    => validation.errors # <<>>

\* C12 amended: a missing dimension, a score outside [0, 100] or a ratio p, q,
\* r or g outside [0, 1] each give at least one hard error; when k outside
\* [0.8, 1.0] is the only defect there is a warning about k and no error.
C12_HardErrorOnMissingOrOutOfRange ==
    /\ (/\ validation.done
        /\ IsDict(judge_record)
        /\ \/ DimensionMissing(judge_record)
           \/ ScoreOutOfRange(judge_record)
           \/ MetricOutOfRange(judge_record, {"p", "q", "r", "g"}))
       => validation.errors # <<>>
    /\ (/\ validation.done
        /\ ScoresInRange(judge_record)
        /\ MetricOutOfRange(judge_record, {"k"})
        /\ \A dim \in Dimensions :
              MetricInRange(MetricIn(judge_record, dim, RatioKey[dim]), RatioKey[dim])
        /\ OverallNearMean(judge_record)
        /\ CompleteResponse(judge_record))
       => /\ validation.errors = <<>>
          /\ validation.warnings = <<Message("k_out_of_range", "completeness")>>

\* a response whose only defect is faithfulness.g above 1 has been validated
\* and has exactly that error
C12_RatioOutOfRangeRejected ==
    /\ validation.done
    /\ IsDict(judge_record)
    /\ MetricIn(judge_record, "faithfulness", "g") = Frac(3, 2)
    /\ ~DimensionMissing(judge_record)
    /\ ~ScoreOutOfRange(judge_record)
    /\ validation.errors = <<Message("ratio_out_of_range", "faithfulness")>>

MismatchWarned == Message("overall_mismatch", "") \in Range(validation.warnings)

\* overall is a number more than 2 points away from the mean of the scores
OverallFarFromMean(record) ==
    /\ OverallIsNumber(record)
    /\ MeanGap(record)[1] > 2 * MeanGap(record)[2]

\* C13: when all four dimension scores are valid, the overall-mismatch warning
\* is emitted exactly when overall differs from the unweighted mean of the four
\* scores by more than 2 points; the mismatch is a warning and never an error;
\* scores 92, 88, 95, 90 with overall 91 give no message at all.
C13_MismatchWarningBeyondTwoPoints ==
    /\ (validation.done /\ ScoresInRange(judge_record))
       => /\ MismatchWarned <=> OverallFarFromMean(judge_record)
          /\ Message("overall_mismatch", "") \notin Range(validation.errors)
    /\ (/\ validation.done
        /\ ScoresInRange(judge_record)
        /\ SuppliedMetricsInRange(judge_record)
        /\ OverallFarFromMean(judge_record)
        /\ CompleteResponse(judge_record))
       => /\ validation.errors = <<>>
          /\ validation.warnings = <<Message("overall_mismatch", "")>>
    /\ (validation.done /\ judge_record = CleanJudgeA) => NoMessages

\* a complete response with scores 92, 88, 95, 90 and overall 89, which is
\* 2.25 points below their mean, has been validated and warned about
C13_MismatchWarned ==
    /\ validation.done
    /\ ScoresInRange(judge_record)
    /\ OverallIsNumber(judge_record)
    /\ MeanGap(judge_record) = <<9, 4>>
    /\ validation.errors = <<>>
    /\ MismatchWarned

(***************************************************************************)
(* Claims about the layer weights and the final score                      *)
(***************************************************************************)
\* the layers that score an answer: keyword always, the others when enabled
ActiveLayers(e) ==
    {"keyword"} \cup (IF e.enable_semantic THEN {"semantic"} ELSE {})
                \cup (IF e.enable_gpt THEN {"gpt"} ELSE {})

\* the score each layer gave in the last evaluation
LayerScore == [keyword |-> layer_result.keyword_coverage,
               semantic |-> layer_result.semantic_similarity,
               gpt |-> layer_result.gpt_overall]

\* the weights of the active layers add up to 1 (10 tenths)
ActiveWeightsSumToOne(e) ==
    LET w == [l \in Layers |-> IF l \in ActiveLayers(e) THEN e.weights[l] ELSE 0]
    IN  w.keyword + w.semantic + w.gpt = 10

\* C14: the weights applied to the active layers are non-negative and sum to
\* 1, and final_score lies between the lowest and the highest score of the
\* active layers, for every evaluator built by the constructor or from the
\* sidebar controls.  (Refuted: the weights are used as supplied.)
C14_FinalScoreIsConvexCombination ==
    layer_result.done =>
        LET active == ActiveLayers(evaluator)
        IN  /\ \A l \in active : layer_result.weights_used[l] >= 0
            /\ ActiveWeightsSumToOne(evaluator)
            /\ \E l \in active : Leq(Num(LayerScore[l]), layer_result.final_score)
            /\ \E l \in active : Leq(layer_result.final_score, Num(LayerScore[l]))

\* built from the sidebar with both layers ticked and both sliders at 0.8:
\* the judge weight is -0.6 and an answer with 100 on both active layers gets
\* a final score of 160
C14_FinalScoreAboveEveryLayer ==
    /\ layer_result.done
    /\ evaluator.by = "dashboard"
    /\ evaluator.weights = Weights(8, 8, -6)
    /\ ActiveLayers(evaluator) = {"keyword", "semantic"}
    /\ layer_result.keyword_coverage = 100
    /\ layer_result.semantic_similarity = 100
    /\ layer_result.final_score = Num(160)

\* C15: when the semantic scorer is disabled or its model is unavailable, the
\* weight the aggregation uses for the semantic layer is zero, also when the
\* caller supplied a non-zero one.  (Refuted: the supplied weight is kept.)
C15_DisabledSemanticHasZeroWeight ==
    (evaluator # NoneV /\ ~evaluator.enable_semantic)
    => /\ evaluator.weights.semantic = 0
       /\ layer_result.done => layer_result.weights_used.semantic = 0

\* the semantic model failed to load in a dashboard run with the default
\* sliders: the semantic weight stays 0.3 and an answer with keyword coverage
\* 100 gets a final score of 30
C15_DisabledSemanticKeepsWeight ==
    /\ layer_result.done
    /\ evaluator.by = "dashboard"
    /\ ~evaluator.enable_semantic
    /\ layer_result.weights_used = Weights(3, 3, 4)
    /\ layer_result.keyword_coverage = 100
    /\ layer_result.semantic_similarity = 0
    /\ layer_result.final_score = Num(30)

(***************************************************************************)
(* Claims about the judge overall of the selected dimensions               *)
(***************************************************************************)
\* the selected dimensions of the last computation that have a score
ScoredSelected ==
    IF IsDict(overall_result.gpt_data)
    THEN {dim \in Range(overall_result.dimensions) :
            GetDimensionScore(overall_result.gpt_data, dim) # NoneV}
    ELSE {}

SelectedScore(dim) == GetDimensionScore(overall_result.gpt_data, dim)

\* the weights used are non-negative, sum to 1 over the selected dimensions,
\* and are an equal split when no selected dimension has a positive
\* configured weight
WeightsNormalised ==
    LET dims == Range(overall_result.dimensions)
        w == overall_result.weights
        configured == dimension_settings.weights
    IN  /\ dims # {}
        /\ DOMAIN w = dims
        /\ \A dim \in dims : Leq(Num(0), w[dim])
        /\ SumOf(w, dims) = Num(1)
        /\ (\A dim \in dims :
               \/ dim \notin DOMAIN configured
               \/ configured[dim].n <= 0)
           => \A dim \in dims : w[dim] = Rat(1, Cardinality(dims))

\* value lies between the lowest and the highest score of the dimensions in among
BetweenScores(value, among) ==
    /\ \E dim \in among : Leq(SelectedScore(dim), value)
    /\ \E dim \in among : Leq(value, SelectedScore(dim))

\* C16 as stated: the weights are normalised, the result lies between the
\* lowest and the highest score of the selected dimensions that have one, and
\* the layer weights are untouched.  (Refuted: when every scored dimension has
\* weight zero the result is the record's own overall.)
C16_OverallBetweenScoredDimensions ==
    overall_result.done =>
        /\ WeightsNormalised
        /\ ScoredSelected # {} => BetweenScores(overall_result.value, ScoredSelected)
        /\ evaluator = DefaultEvaluator

\* C16 amended: the weights are normalised and the layer weights untouched;
\* when a scored selected dimension has a positive weight the result is the
\* weighted mean of the scored selected dimensions and lies between their
\* scores; otherwise it is float(overall) of the record, or 0.0 when the record
\* has no parsable overall or is no mapping.
C16_OverallIsWeightedMeanOrFallback ==
    overall_result.done =>
        LET w == overall_result.weights
            weighted == {dim \in ScoredSelected : w[dim] # Num(0)}
            products == [dim \in ScoredSelected |-> Mul(SelectedScore(dim), w[dim])]
            applied == SumOf([dim \in ScoredSelected |-> w[dim]], ScoredSelected)
        IN  /\ WeightsNormalised
            /\ evaluator = DefaultEvaluator
            /\ weighted # {} =>
                  /\ Mul(overall_result.value, applied) = SumOf(products, ScoredSelected)
                  /\ BetweenScores(overall_result.value, weighted)
            /\ weighted = {} =>
                  overall_result.value =
                      (IF OverallIsNumber(overall_result.gpt_data)
                       THEN FloatOf(Get(overall_result.gpt_data.d, "overall"))
                       ELSE Num(0))

\* relevance 92 and completeness 88 selected with configured weights 0.25 and
\* 0.75: the weights used are 1/4 and 3/4 and the overall is 89
C16_WeightedMeanComputed ==
    /\ overall_result.done
    /\ overall_result.gpt_data = CleanJudgeA
    /\ overall_result.dimensions = <<"relevance", "completeness">>
    /\ overall_result.weights = [relevance |-> Frac(1, 4), completeness |-> Frac(3, 4)]
    /\ overall_result.value = Num(89)

(***************************************************************************)
(* Claims about the keyword coverage                                       *)
(***************************************************************************)
NoAnswerOrNoKeywords == IsNa(coverage_call.answer) \/ coverage_call.keywords = <<>>

ScoreInRange(score) == Leq(Num(0), score) /\ Leq(score, Num(100))

\* C17 as stated: the coverage score is in [0, 100], and it is 0 if and only
\* if the keyword list is empty or the answer is missing.  (Refuted: an answer
\* that holds none of the keywords scores 0 too.)
C17_ZeroOnlyWithoutAnswerOrKeywords ==
    coverage_result.done =>
        /\ ScoreInRange(coverage_result.score)
        /\ coverage_result.score = Num(0) <=> NoAnswerOrNoKeywords

\* C17 amended: the coverage score is in [0, 100]; it is 0 when the keyword
\* list is empty or the answer is missing, and otherwise it is 0 exactly when
\* no keyword is matched.
C17_ZeroWithoutAnswerKeywordsOrMatch ==
    coverage_result.done =>
        /\ ScoreInRange(coverage_result.score)
        /\ NoAnswerOrNoKeywords => coverage_result.score = Num(0)
        /\ ~NoAnswerOrNoKeywords =>
              (coverage_result.score = Num(0) <=> coverage_result.matched = <<>>)

\* an answer that holds neither of two keywords nor a similar term has been
\* scored 0
C17_UnmatchedAnswerScoredZero ==
    /\ coverage_result.done
    /\ ~IsNa(coverage_call.answer)
    /\ Len(coverage_call.keywords) = 2
    /\ coverage_call.answer.s # <<>>
    /\ coverage_result.matched = <<>>
    /\ coverage_result.score = Num(0)

\* the position of a keyword in the keyword list
PositionOf(keywords, keyword) == CHOOSE i \in 1..Len(keywords) : keywords[i] = keyword

\* the list holds keywords in the order of the keyword list, none twice
InKeywordOrder(list, keywords) ==
    /\ Range(list) \subseteq Range(keywords)
    /\ \A i, j \in 1..Len(list) :
          i < j => PositionOf(keywords, list[i]) < PositionOf(keywords, list[j])

\* the keyword occurs in the answer without regard to case, or a similar term
\* of a synonym key that the keyword holds occurs in the answer
OccursOrHasSimilarTerm(keyword, answer) ==
    \/ \E i \in 1..Len(answer) : \E j \in i..Len(answer) :
          Lower(SubSeq(answer, i, j)) = Lower(keyword)
    \/ \E family \in Range(synonyms) :
          /\ Contains(keyword, family.key)
          /\ \E term \in Range(family.similar_terms) : Contains(Lower(answer), term)

\* C18: for an answer that is present and a non-empty keyword list, matched
\* and missing partition the keywords, each in keyword order; a keyword is
\* matched exactly when it occurs in the answer without regard to case or a
\* similar term of its synonym family does; score = 100 * |matched| / |keywords|.
C18_MatchedAndMissingPartitionKeywords ==
    (coverage_result.done /\ ~NoAnswerOrNoKeywords) =>
        LET keywords == coverage_call.keywords
            answer == coverage_call.answer.s
            matched == coverage_result.matched
        IN  /\ InKeywordOrder(matched, keywords)
            /\ \A keyword \in Range(keywords) :
                  keyword \in Range(matched) <=> OccursOrHasSimilarTerm(keyword, answer)
            /\ Mul(coverage_result.score, Num(Len(keywords))) = Num(100 * Len(matched))
            /\ coverage_result.by = "v2" =>
                  LET missing == coverage_result.details.missing_list
                  IN  /\ coverage_result.details.found_list = matched
                      /\ InKeywordOrder(missing, keywords)
                      /\ Range(matched) \cup Range(missing) = Range(keywords)
                      /\ Range(matched) \cap Range(missing) = {}
                      /\ coverage_result.details.total_keywords = Len(keywords)
                      /\ coverage_result.details.matched_keywords = Len(matched)
                      /\ coverage_result.details.missing_keywords = Len(missing)

\* two keywords, the second matched only through a similar term and the first
\* missing: the score is 50
C18_OneOfTwoMatchedBySimilarTerm ==
    /\ coverage_result.done
    /\ coverage_result.by = "v2"
    /\ ~NoAnswerOrNoKeywords
    /\ Len(coverage_call.keywords) = 2
    /\ coverage_result.matched = <<coverage_call.keywords[2]>>
    /\ coverage_result.details.missing_list = <<coverage_call.keywords[1]>>
    /\ ~Contains(Lower(coverage_call.answer.s), Lower(coverage_call.keywords[2]))
    /\ coverage_result.score = Num(50)

\* the call returned early: the answer is missing or there are no keywords
ReturnedEarly ==
    /\ coverage_result.done
    /\ coverage_result.by = "v2"
    /\ NoAnswerOrNoKeywords

\* the reasons for which a call returns early
ReasonsOf(answer, keywords) ==
    [no_answer |-> IsNa(answer), no_keywords |-> keywords = <<>>]

\* C19: when the coverage scorer returns 0 early, its detail states which
\* reason applied: no other early return, made for a different reason (an
\* empty keyword list against a missing answer), has the same detail.
C19_EarlyReturnDetailStatesReason ==
    ReturnedEarly =>
        \A answer \in Answers, keywords \in KeywordLists :
            (/\ IsNa(answer) \/ keywords = <<>>
             /\ CalculateKeywordCoverage(answer, keywords).details
                    = coverage_result.details)
            => ReasonsOf(answer, keywords)
                   = ReasonsOf(coverage_call.answer, coverage_call.keywords)

\* a missing answer scored against no keywords gets the detail that an
\* answered call with no keywords gets
C19_NullAnswerDetailAsEmptyReference ==
    /\ ReturnedEarly
    /\ IsNa(coverage_call.answer)
    /\ \E answer \in Answers :
          /\ ~IsNa(answer)
          /\ CalculateKeywordCoverage(answer, <<>>).details = coverage_result.details

(***************************************************************************)
(* Faithfulness: claims                                                    *)
(***************************************************************************)
\* the tokens of the answer that the reference keywords do not hold, one for
\* every occurrence in the answer
Unsupported(in_answer, in_reference) ==
    Cardinality({i \in 1..Len(in_answer) : in_answer[i] \notin Range(in_reference)})

UnsupportedNumbers ==
    Unsupported(FindNumbers(faith_call.answer.s, 1),
                FindNumbers(Join(faith_call.keywords, <<" ">>), 1))

UnsupportedDates ==
    Unsupported(FindDates(faith_call.answer.s, 1),
                FindDates(Join(faith_call.keywords, <<" ">>), 1))

\* the lengths of the listed connective words that stand at place i
ConnectiveLengthsAt(text, i) ==
    {Len(word) : word \in {w \in Range(explanation_words) :
        /\ i + Len(w) - 1 <= Len(text)
        /\ SubSeq(text, i, i + Len(w) - 1) = w}}

\* the connectives in the text from place i on, every occurrence counted, the
\* longest word taken where two start at one place and none inside another
RECURSIVE ConnectivesFrom(_, _)
ConnectivesFrom(text, i) ==
    IF i > Len(text) THEN 0
    ELSE LET lengths == ConnectiveLengthsAt(text, i)
         IN  IF lengths = {} THEN ConnectivesFrom(text, i + 1)
             ELSE 1 + ConnectivesFrom(text,
                         i + (CHOOSE n \in lengths : \A m \in lengths : m <= n))

\* the listed connective words that occur in the text, each counted once
ListedWordsIn(text) ==
    Cardinality({word \in Range(explanation_words) : Contains(text, word)})

\* the decision table, first matching rule first
ScoreByTable(numbers, dates, connectives) ==
    IF numbers > 2 \/ dates > 1 THEN 50
    ELSE IF numbers > 0 \/ dates > 0 THEN 75
    ELSE IF connectives > 3 THEN 90
    ELSE 100

\* C20 as stated: the score is in {50, 75, 90, 100} and follows the decision
\* table, with the connectives of the answer counted as the unsupported tokens
\* are, one for every occurrence; a missing answer scores 100.
C20_ScoreFollowsDecisionTable ==
    faith_result.done =>
        /\ faith_result.score \in {50, 75, 90, 100}
        /\ IF IsNa(faith_call.answer) THEN faith_result.score = 100
           ELSE faith_result.score =
                    ScoreByTable(UnsupportedNumbers, UnsupportedDates,
                                 ConnectivesFrom(faith_call.answer.s, 1))

\* C20: the score is in {50, 75, 90, 100} and follows the decision table:
\* more than 2 unsupported numeric tokens or more than 1 unsupported date
\* token gives 50; otherwise any unsupported token gives 75; otherwise more
\* than 3 of the listed connective words occurring in the answer, each counted
\* once, gives 90; otherwise 100; a missing answer scores 100.
C20_ScoreFollowsDecisionTableOfListedWords ==
    faith_result.done =>
        /\ faith_result.score \in {50, 75, 90, 100}
        /\ IF IsNa(faith_call.answer) THEN faith_result.score = 100
           ELSE faith_result.score =
                    ScoreByTable(UnsupportedNumbers, UnsupportedDates,
                                 ListedWordsIn(faith_call.answer.s))

\* an answer with a date that the reference supports and four listed words,
\* scored 90 by the third rule
C20_SupportedDateAndFourWordsScoredNinety ==
    /\ faith_result.done
    /\ ~IsNa(faith_call.answer)
    /\ FindDates(faith_call.answer.s, 1) # <<>>
    /\ UnsupportedNumbers = 0
    /\ UnsupportedDates = 0
    /\ ListedWordsIn(faith_call.answer.s) = 4
    /\ faith_result.score = 90

(***************************************************************************)
(* Semantic similarity: claims                                             *)
(***************************************************************************)
\* a text that is missing or empty
NullOrEmpty(text) == IsNa(text) \/ text = Str(<<>>)

\* the embedding call failed: fewer embeddings came back than were asked for
EmbeddingFailed ==
    /\ semantic_result.encoded # <<>>
    /\ "raw_similarity" \notin DOMAIN semantic_result.details

\* C21: the semantic scorer returns a score and a detail map in every case;
\* when the reference or the answer is null or empty, the scorer is disabled
\* or the embedding call fails, the score is 0 and the detail has an error
\* entry; no text is handed to the embedding function twice.
C21_SemanticFailureReturnsZeroWithError ==
    semantic_result.done =>
        /\ semantic_result.score.n \in 0..100
        /\ (\/ NullOrEmpty(semantic_call.reference_text)
            \/ NullOrEmpty(semantic_call.answer)
            \/ ~semantic_call.enable_semantic
            \/ EmbeddingFailed)
           => /\ semantic_result.score = Num(0)
              /\ "error" \in DOMAIN semantic_result.details
        /\ Len(semantic_result.encoded) <= 2
        /\ semantic_call.reference_text # semantic_call.answer
               => \A i, j \in 1..Len(semantic_result.encoded) :
                      i # j => semantic_result.encoded[i] # semantic_result.encoded[j]

\* an empty answer was encoded and scored, and the detail has no error entry
C21_EmptyAnswerScored ==
    /\ semantic_result.done
    /\ semantic_call.answer = Str(<<>>)
    /\ semantic_result.encoded = <<semantic_call.reference_text, Str(<<>>)>>
    /\ semantic_result.score = Num(45)
    /\ "error" \notin DOMAIN semantic_result.details

(***************************************************************************)
(* The evaluation ledger: statistics, clearing and queries                 *)
(***************************************************************************)
\* the sum of optimized final_score - original final_score over the records
RECURSIVE SumOfGains(_)
SumOfGains(evals) ==
    IF evals = <<>> THEN 0
    ELSE SumOfGains(SubSeq(evals, 1, Len(evals) - 1))
         + evals[Len(evals)].final_optimized - evals[Len(evals)].final_original

\* get_statistics is the step taken next after a save_evaluation of the same
\* manager that returned True
StatisticsNextAfterSave ==
    /\ ret.op = "save" /\ ret.ok
    /\ ret'.op = "statistics" /\ ret'.mgr = ret.mgr

\* C22: a successful save_evaluation adds one record to what get_statistics
\* counts, and get_statistics called next on the same manager reports the
\* total increased by one and avg_improvement as the mean of (optimized
\* final_score - original final_score) over all records, the new one included.
C22_StatisticsReflectSave ==
    [][/\ \A m \in Managers : (SuccessfulSave /\ ret'.mgr = m) =>
                /\ GetStatisticsOf(m)'.total_evaluations
                       = GetStatisticsOf(m).total_evaluations + 1
                /\ Len(history_data'[m]) = Len(history_data[m]) + 1
                /\ SubSeq(history_data'[m], 1, Len(history_data[m])) = history_data[m]
       /\ StatisticsNextAfterSave =>
            LET evals == history_data[ret.mgr]
                before == SubSeq(evals, 1, Len(evals) - 1)
                saved == evals[Len(evals)]
            IN  /\ ret'.value.total_evaluations = Len(before) + 1
                /\ ret'.value.improvement_count = Len(before) + 1
                /\ ret'.value.improvement_sum
                       = SumOfGains(before) + saved.final_optimized - saved.final_original
      ]_vars

\* statistics reported by a manager whose last write stored its two records,
\* one improved by 50 and one declined by 50
C22_StatisticsOverTwoRecords ==
    /\ ret.op = "statistics"
    /\ history_file.evaluations = history_data[ret.mgr]
    /\ ret.value.total_evaluations = 2
    /\ \E i \in 1..2 : history_data[ret.mgr][i].final_optimized
                           - history_data[ret.mgr][i].final_original = 50
    /\ ret.value.improvement_sum = 0
    /\ ret.value.questions_with_decline = 1

\* C23: after clear_history returned True the whole store is empty:
\* get_all_evaluations returns nothing, get_statistics reports a total of 0,
\* the history file holds no record and load_llm_judge_table returns no row.
C23_ClearEmptiesWholeStore ==
    (ret.op = "clear" /\ ret.ok) =>
        /\ GetAllEvaluationsOf(ret.mgr) = <<>>
        /\ GetStatisticsOf(ret.mgr).total_evaluations = 0
        /\ LoadHistory(history_file) = <<>>
        /\ LoadLlmJudgeTable = <<>>

\* the history was cleared and the judge table still has the rows of a record
\* that is gone
C23_JudgeRowsSurviveClear ==
    /\ ret.op = "clear" /\ ret.ok
    /\ GetAllEvaluationsOf(ret.mgr) = <<>>
    /\ LoadHistory(history_file) = <<>>
    /\ Len(LoadLlmJudgeTable) = 4

\* the records of the list for a question of the file
RecordsOf(evaluations, excel_filename, question_id) ==
    {i \in 1..Len(evaluations) :
        /\ evaluations[i].excel_file = excel_filename
        /\ evaluations[i].question_id = question_id}

\* the record with the latest timestamp among them
MostRecent(evaluations, indices) ==
    evaluations[CHOOSE i \in indices :
        \A j \in indices : evaluations[j].timestamp <= evaluations[i].timestamp]

\* the session has just restored its judge responses from the ledger
JustRestored == clicked.button = "new_session"

\* C24: after load_gpt_from_history the judge record held in the session for a
\* question and version is the one of the most recent ledger record of that
\* question and file, whatever the older records hold.
C24_RestoredFromMostRecentRecord ==
    JustRestored =>
        \A version \in Versions : \A question_id \in DOMAIN gpt_responses[version] :
            LET evaluations == GetAllEvaluationsOf(SessionManager)
                indices == RecordsOf(evaluations, CurrentExcelFilename, question_id)
            IN  /\ indices # {}
                /\ gpt_responses[version][question_id]
                       = MostRecent(evaluations, indices).gpt_raw[version]

\* the most recent record holds a response for the original answer that scores
\* it 0, and the session has restored the response of the older record
C24_OlderResponseRestored ==
    /\ JustRestored
    /\ Len(GetAllEvaluationsOf(SessionManager)) = 2
    /\ GetAllEvaluationsOf(SessionManager)[2].gpt_raw["original"] = ZeroJudge
    /\ 1 \in DOMAIN gpt_responses["original"]
    /\ gpt_responses["original"][1] = GetAllEvaluationsOf(SessionManager)[1].gpt_raw["original"]
    /\ gpt_responses["original"][1] # ZeroJudge

\* the places of the list whose record passes the filter, and the k-th of them
KthOf(indices, k) ==
    CHOOSE i \in indices : Cardinality({j \in indices : j <= i}) = k

\* the result holds exactly the records at these places, in the order of the list
ExactlyInOrder(result, evaluations, indices) ==
    /\ Len(result) = Cardinality(indices)
    /\ \A k \in 1..Len(result) : result[k] = evaluations[KthOf(indices, k)]

\* C25: get_evaluations_by_file returns exactly the records of the named file
\* and get_evaluations_by_date exactly the records whose timestamp t has
\* start <= t <= end, both bounds included; each in append order; neither
\* query changes the ledger.
C25_QueriesArePureFilters ==
    [][/\ ret'.op = "by_file" =>
            /\ ExactlyInOrder(ret'.value, history_data[ret'.mgr],
                   {i \in 1..Len(history_data[ret'.mgr]) :
                       history_data[ret'.mgr][i].excel_file = ret'.excel_filename})
            /\ UNCHANGED <<history_file, history_data>>
       /\ ret'.op = "by_date" =>
            /\ ExactlyInOrder(ret'.value, history_data[ret'.mgr],
                   {i \in 1..Len(history_data[ret'.mgr]) :
                       LET t == IsoFormat(history_data[ret'.mgr][i].timestamp)
                       IN  /\ t = ret'.start_date \/ ~StrLeq(t, ret'.start_date)
                           /\ t = ret'.end_date \/ ~StrLeq(ret'.end_date, t)})
            /\ UNCHANGED <<history_file, history_data>>
      ]_vars

\* a query by date whose bounds are the timestamps of the first and of the
\* second record returns both, and the third record is left out
C25_BoundsIncluded ==
    /\ ret.op = "by_date"
    /\ Len(history_data[ret.mgr]) = 3
    /\ ret.start_date = IsoFormat(history_data[ret.mgr][1].timestamp)
    /\ ret.end_date = IsoFormat(history_data[ret.mgr][2].timestamp)
    /\ ret.value = SubSeq(history_data[ret.mgr], 1, 2)

(***************************************************************************)
(* parse_gpt_response: the order of the parsing strategies                 *)
(***************************************************************************)
\* the parse of a text by one strategy: the schema-normalised mapping, or the
\* value as it is when the structured parse gives no mapping
C26_Parsed(text) ==
    IF IsDict(text.payload) THEN NormalizeGptSchema(text.payload) ELSE text.payload

\* the permissive literal parse succeeds: it reads a mapping
C26_LiteralSucceeds(text) == LiteralEval(text) = "value" /\ IsDict(text.payload)

\* strategies 1 to 3 on one text: as-is, normalised, literal; <<>> when none
\* of them succeeds
C26_WholeByOrder(text) ==
    LET normalized == NormalizeJsonLikeText(text)
    IN  IF JsonLoadsOk(text) THEN <<C26_Parsed(text)>>
        ELSE IF JsonLoadsOk(normalized) THEN <<C26_Parsed(normalized)>>
        ELSE IF C26_LiteralSucceeds(text) THEN <<C26_Parsed(text)>>
        ELSE IF C26_LiteralSucceeds(normalized) THEN <<C26_Parsed(normalized)>>
        ELSE <<>>

\* the result in the stated order: strategies 1 to 3 on the text, then the
\* same on its brace-delimited substring, else the error record
C26_ByStatedOrder(text) ==
    LET raw == StripResponse(text)
        whole == C26_WholeByOrder(raw)
        snippet == IF HasBraceMatch(raw) THEN C26_WholeByOrder(BraceSnippet(raw))
                   ELSE <<>>
    IN  IF text = EmptyText THEN ErrorRecord("empty", text)
        ELSE IF whole # <<>> THEN whole[1]
        ELSE IF snippet # <<>> THEN snippet[1]
        ELSE ErrorRecord("unparsable", text)

\* C26: parse_gpt_response returns the result of the first strategy that
\* succeeds in the order (1) structured parse of the text as-is, (2) structured
\* parse of the quote-normalised text, (3) permissive literal parse, (4) the
\* same steps on the brace-delimited substring; a later strategy never
\* decides the result of a text on which an earlier one succeeds.
C26_FirstStrategyInStatedOrderWins ==
    (parse_result.by = "dashboard" /\ parse_result.kind = "return") =>
        parse_result.value = C26_ByStatedOrder(response_text)

\* C26, what the code does: on a curly-quoted array that holds an object the
\* brace substring of the raw text is parsed before the normalised text, and
\* the object comes back where the normalised text parses to the list.
C26_SubstringOfRawBeatsNormalisedText ==
    /\ parse_result.by = "dashboard"
    /\ response_text.style = "curly_array"
    /\ ~response_text.prose
    /\ JsonLoadsOk(NormalizeJsonLikeText(StripResponse(response_text)))
    /\ parse_result.value = NormalizeGptSchema(response_text.payload.holds)
    /\ parse_result.value # response_text.payload

(***************************************************************************)
(* get_statistics: every retained record counted once                      *)
(***************************************************************************)
\* total_evaluations as get_statistics of manager m reports it
C27_Total(m) == GetStatisticsOf(m).total_evaluations

\* the call that just returned was made on manager m
C27_Called(m, op) == ret'.op = op /\ ret'.mgr = m /\ ret' # ret

\* C27: get_statistics counts every retained record exactly once. The total
\* is the number of records appended since the last clear: a manager starts
\* with the records its history file retains, each save_evaluation call adds
\* one to the total, clear_history sets it to 0 and nothing else changes it;
\* whenever the ledger is non-empty the counts of improved, declined and
\* unchanged questions add up to the total.
C27_StatisticsCountEachRecordOnce ==
    [][\A m \in Managers :
          /\ (now' = now + 1 /\ ret'.op = "save" /\ ret'.mgr = m)
                 => C27_Total(m)' = C27_Total(m) + 1
          /\ C27_Called(m, "clear") => C27_Total(m)' = 0
          /\ C27_Called(m, "init")
                 => C27_Total(m)' = IF history_file.exists /\ history_file.valid
                                    THEN Len(history_file.evaluations) ELSE 0
          /\ (ret'.mgr # m \/ ret'.op \notin {"save", "clear", "init"})
                 => C27_Total(m)' = C27_Total(m)
          /\ C27_Called(m, "statistics") =>
                /\ ret'.value.total_evaluations = C27_Total(m)
                /\ ret'.value.total_evaluations > 0 =>
                      ret'.value.questions_with_improvement
                        + ret'.value.questions_with_decline
                        + ret'.value.questions_unchanged
                      = ret'.value.total_evaluations
      ]_vars

\* statistics over three records appended after a clear: one improved, one
\* declined, one unchanged
C27_ThreeRecordsOneOfEachKind ==
    /\ ret.op = "statistics"
    /\ ret.value.total_evaluations = 3
    /\ ret.value.questions_with_improvement = 1
    /\ ret.value.questions_with_decline = 1
    /\ ret.value.questions_unchanged = 1

(***************************************************************************)
(* "save all to history"                                                   *)
(***************************************************************************)
\* the questions of the table that have a judge record for some version, in
\* the order of the rows
RECURSIVE C28_JudgedQuestionsFrom(_)
C28_JudgedQuestionsFrom(i) ==
    IF i > Len(ResultsDf) THEN <<>>
    ELSE (IF \E version \in Versions :
                 ResultsDf[i].seq_no \in DOMAIN gpt_responses[version]
          THEN <<ResultsDf[i].seq_no>> ELSE <<>>)
         \o C28_JudgedQuestionsFrom(i + 1)

\* the ledger of the session as a loop of auto_save_evaluation calls starts
\* from it
C28_Ledger ==
    [results_df |-> ResultsDf, current_excel_filename |-> CurrentExcelFilename,
     history_data |-> history_data[SessionManager], history_file |-> history_file,
     now |-> now, judge_table |-> judge_table, saved_count |-> 0]

\* C28: "save all to history" appends one evaluation record for each question
\* (identified by its question id, the seq_no column) that has a stored judge
\* record for some version, and nothing for any other question; a call of
\* auto_save_evaluation with a question id that has no judge record for
\* either version returns False and leaves the ledger unchanged.
C28_SaveAllAppendsEachJudgedQuestion ==
    [][/\ clicked'.button = "manual_save_all" =>
             LET old == history_data[SessionManager]
                 new == history_data'[SessionManager]
                 judged == C28_JudgedQuestionsFrom(1)
             IN  /\ Len(new) = Len(old) + Len(judged)
                 /\ SubSeq(new, 1, Len(old)) = old
                 /\ \A k \in 1..Len(judged) :
                       new[Len(old) + k].question_id = judged[k]
       /\ \A id \in 0..Len(ResultsDf) + 1, outcome \in {"written", "open_fails"} :
             (\A version \in Versions : id \notin DOMAIN gpt_responses[version])
                 => AutoSaveTurn(C28_Ledger, id, gpt_responses, outcome) = C28_Ledger
      ]_vars

\* C28, what the code does: question 1 holds a judge record and "save all"
\* saved nothing, because the loop asked for question 0
C28_JudgedQuestionNotSaved ==
    /\ clicked.button = "manual_save_all"
    /\ ret.op = "manual_save_all"
    /\ ret.saved_count = 0
    /\ \E version \in Versions : 1 \in DOMAIN gpt_responses[version]
    /\ \A i \in 1..Len(ResultsDf) : ResultsDf[i].seq_no # 0

(***************************************************************************)
(* auto_save_evaluation: the judge table rows of one call                  *)
(***************************************************************************)
\* the rows a step appended to the judge table
C30_Batch == SubSeq(judge_table', Len(judge_table) + 1, Len(judge_table'))

\* the rows of a batch for one version
C30_RowsOf(batch, version) == SelectSeq(batch, LAMBDA row : row.version = version)

\* C30: within one auto_save_evaluation call judge table rows are appended
\* only after the evaluation record append of that call succeeded: when
\* save_evaluation returns False no row is written, rows are only ever added
\* at the end of the table, and every batch holds at most one row per
\* dimension per version (at most 4 for each of original and optimized), all
\* for the question of the call and only for versions with a stored judge
\* record.
C30_JudgeRowsFollowSuccessfulSave ==
    [][/\ (now' = now + 1 /\ ret'.op = "save" /\ ~ret'.ok)
             => judge_table' = judge_table
       /\ judge_table' # judge_table =>
             /\ now' = now + 1 /\ ret'.op = "save" /\ ret'.ok
             /\ Len(judge_table') > Len(judge_table)
             /\ SubSeq(judge_table', 1, Len(judge_table)) = judge_table
             /\ \A version \in Versions :
                   LET rows == C30_RowsOf(C30_Batch, version)
                   IN  /\ Len(rows) <= 4
                       /\ \A a, b \in 1..Len(rows) :
                             rows[a].dimension = rows[b].dimension => a = b
                       /\ rows # <<>> =>
                             clicked'.question_id \in DOMAIN gpt_responses'[version]
             /\ \A k \in 1..Len(C30_Batch) :
                   /\ C30_Batch[k].version \in Versions
                   /\ C30_Batch[k].question_id = clicked'.question_id
      ]_vars

\* the second save of a session wrote a batch of 8 rows, 4 for each version,
\* after the first wrote 4 for one version
C30_BatchForBothVersions ==
    /\ ret.op = "save" /\ ret.ok
    /\ Len(judge_table) = 12
    /\ \A version \in Versions :
          Len(C30_RowsOf(SubSeq(judge_table, 5, 12), version)) = 4

(***************************************************************************)
(* The cached results and judge maps when another file is selected         *)
(***************************************************************************)
\* the results the session holds are those of evaluate_all on its file
C29_ResultsOfCurrentFile ==
    session_state.comparison_results # NoneV =>
        session_state.comparison_results
            = EvaluateAll[session_state.current_excel_filename]

\* every judge record of the session maps was stored or restored under the
\* file of the session: the ledger holds it in a record of that file
C29_JudgeMapsOfCurrentFile ==
    \A version \in Versions : \A question_id \in DOMAIN gpt_responses[version] :
        \E i \in 1..Len(history_data[SessionManager]) :
            LET record == history_data[SessionManager][i]
            IN  /\ record.excel_file = session_state.current_excel_filename
                /\ record.question_id = question_id
                /\ record.gpt_raw[version] = gpt_responses[version][question_id]

\* every record of the ledger carries the scores of its question in the
\* results of the file it is saved under
C29_RecordsOfTheirFile ==
    \A i \in 1..Len(history_data[SessionManager]) :
        LET record == history_data[SessionManager][i]
        IN  \E k \in 1..Len(EvaluateAll[record.excel_file].rows) :
                LET row == EvaluateAll[record.excel_file].rows[k]
                IN  /\ row.seq_no = record.question_id
                    /\ row.final_original = record.final_original
                    /\ row.final_optimized = record.final_optimized

\* C29: in a dashboard session the cached evaluation results and the cached
\* per-question judge maps always belong to the currently selected source
\* file: after another file is selected, the results displayed and the records
\* saved under the new file name come from that file, never from the file
\* selected before.
C29_CachesBelongToSelectedFile ==
    /\ C29_ResultsOfCurrentFile
    /\ C29_JudgeMapsOfCurrentFile
    /\ C29_RecordsOfTheirFile

\* C29, what the code does: after b.xlsx was selected the ledger holds a
\* record saved under b.xlsx with the scores of a.xlsx, and the session still
\* holds the results of a.xlsx
C29_RecordOfNewFileWithOldScores ==
    /\ session_state.current_excel_filename = "b.xlsx"
    /\ session_state.comparison_results = EvaluateAll["a.xlsx"]
    /\ \E i \in 1..Len(history_data[SessionManager]) :
          LET record == history_data[SessionManager][i]
          IN  /\ record.excel_file = "b.xlsx"
              /\ record.final_original = ResultsDf[1].final_original
              /\ record.final_original # EvaluateAll["b.xlsx"].rows[1].final_original

====
